---- MODULE Spec2Model ----
(***************************************************************************)
(* A model of the vtfs server: the filesystem service                      *)
(* (internal/service/filesystem.go), its four repositories and the         *)
(* PostgreSQL schema they run against (migrations/001_init.sql).           *)
(*                                                                         *)
(* The four tables are sets of rows.  A store statement is an operator     *)
(* from a database value to a result [db, err]; a transaction is the chain *)
(* of its statements; a service call is an operator from the database and  *)
(* the call's arguments to [db, err, out].                                 *)
(***************************************************************************)
EXTENDS Integers, Sequences, FiniteSets, TLC

VARIABLES
    filesystems,        \* rows of table filesystems
    inodes,             \* rows of table inodes
    directory_entries,  \* rows of table directory_entries
    file_contents,      \* rows of table file_contents
    last,               \* what the last mutating call returned
    created,            \* <<token, ino>> returned by the successful creates so far
    aborted,            \* <<token, ino>> allocated by a CreateFile that then failed
    pending             \* Unlink calls between their checks and their transaction

tables == <<filesystems, inodes, directory_entries, file_contents>>
vars == <<filesystems, inodes, directory_entries, file_contents,
          last, created, aborted, pending>>

----------------------------------------------------------------------------
(* Program constants *)

VTFS_ROOT_INO == 1000
VTFS_ROOT_MODE == 511
NodeTypeDir == 0
NodeTypeFile == 1

(* Bounds of the model *)

MaxCreates == 2     \* inode numbers a namespace may allocate
MaxEntries == 3     \* directory entries the model lets exist at once
MaxPending == 1     \* calls in flight at once, between their reads and their writes
MaxFlights == 2     \* Links and Unlinks in flight at once
MaxSize == 3        \* largest offset + length of a Write of the content calls

(* The inputs of the calls *)

Tokens == {"tok"}
Names == <<"a", "b">>          \* in ascending (bytewise) order
NameSet == {Names[i] : i \in 1..Len(Names)}
Modes == {420}
Inos == VTFS_ROOT_INO .. (VTFS_ROOT_INO + MaxCreates)
DataBufs == {<<7>>}            \* the data buffers handed to Write
Lengths == {1, 2}
Offsets == {-1, 0}
Cursors == {0, 1}

(* The inputs of the content calls: Write of data[:length] at offset, Read *)
(* into a buffer of bufLen bytes at offset.                                *)
IOData == {<<7, 8>>}
IOLengths == {1, 2, 3}
WLengths == {0} \cup IOLengths
IOOffsets == -1 .. MaxSize
IOBufLens == 1 .. (MaxSize + 1)

----------------------------------------------------------------------------
(* Results of store statements *)

Ok(D) == [db |-> D, err |-> "nil"]
Fail(D, e) == [db |-> D, err |-> e]

(* The k-th statement of a transaction body: skipped once an earlier       *)
(* statement has failed (the body returns at the first error); fails with  *)
(* a store error when the fault is injected at k; otherwise runs.          *)
Stmt(r, k, fault, Op(_)) ==
    IF r.err # "nil" THEN r
    ELSE IF fault = k THEN Fail(r.db, "fault")
    ELSE Op(r.db)

(* WithTransaction: the body's writes are committed when it returns nil    *)
(* and rolled back when it returns an error.  The function returns the     *)
(* body's error: the result of Commit is assigned to a local after the     *)
(* return value has been set, so a failed commit (fault = -1) leaves the   *)
(* database as it was and still returns nil.                               *)
WithTransactionNoRollback(D, r, fault) ==
    [db |-> r.db, err |-> r.err]

WithTransaction(D, r, fault) ==
    IF r.err # "nil" THEN [db |-> D, err |-> r.err]
    ELSE IF fault = -1 THEN [db |-> D, err |-> "nil"]
    ELSE [db |-> r.db, err |-> "nil"]

----------------------------------------------------------------------------
(* filesystemRepository *)

FsGet(D, token) == {f \in D.filesystems : f.token = token}

GetNextIno(D, token) ==
    IF FsGet(D, token) = {} THEN 0
    ELSE (CHOOSE f \in FsGet(D, token) : TRUE).next_ino

GetNextInoStmt(D, token) ==
    IF FsGet(D, token) = {} THEN Fail(D, "no_rows") ELSE Ok(D)

IncrementNextInoNoop(D, token) == Ok(D)

IncrementNextIno(D, token) ==
    Ok([D EXCEPT !.filesystems =
        {IF f.token = token THEN [f EXCEPT !.next_ino = f.next_ino + 1] ELSE f
            : f \in D.filesystems}])

----------------------------------------------------------------------------
(* inodeRepository *)

InodeGetAnyToken(D, token, ino) == {i \in D.inodes : i.ino = ino}

InodeGet(D, token, ino) == {i \in D.inodes : i.token = token /\ i.ino = ino}

HasInode(D, token, ino) == InodeGet(D, token, ino) # {}

TheInode(D, token, ino) == CHOOSE i \in InodeGet(D, token, ino) : TRUE

IsDir(D, token, ino) ==
    \E i \in InodeGet(D, token, ino) : i.type = NodeTypeDir

IsFile(D, token, ino) ==
    \E i \in InodeGet(D, token, ino) : i.type = NodeTypeFile

(* INSERT INTO inodes: primary key (token, ino), foreign key on token. *)
InodeCreate(D, inode) ==
    IF HasInode(D, inode.token, inode.ino) THEN Fail(D, "23505")
    ELSE IF FsGet(D, inode.token) = {} THEN Fail(D, "23503")
    ELSE Ok([D EXCEPT !.inodes = @ \cup {inode}])

UpdateSizeNoop(D, token, ino, size) == Ok(D)

UpdateSize(D, token, ino, size) ==
    Ok([D EXCEPT !.inodes =
        {IF i.token = token /\ i.ino = ino THEN [i EXCEPT !.size = size] ELSE i
            : i \in D.inodes}])

UpdateRefCount(D, token, ino, delta) ==
    Ok([D EXCEPT !.inodes =
        {IF i.token = token /\ i.ino = ino
            THEN [i EXCEPT !.ref_count = i.ref_count + delta] ELSE i
            : i \in D.inodes}])

(* DELETE FROM inodes, with the cascades of the schema: the entries that   *)
(* name the inode, the entries under it, and its content go with it.       *)
InodeDeleteNoCascade(D, token, ino) ==
    Ok([D EXCEPT !.inodes = {i \in @ : ~(i.token = token /\ i.ino = ino)}])

InodeDelete(D, token, ino) ==
    Ok([D EXCEPT
        !.inodes = {i \in @ : ~(i.token = token /\ i.ino = ino)},
        !.directory_entries =
            {e \in @ : ~(e.token = token /\ (e.ino = ino \/ e.parent_ino = ino))},
        !.file_contents = {c \in @ : ~(c.token = token /\ c.ino = ino)}])

----------------------------------------------------------------------------
(* directoryRepository *)

EntriesOf(D, token, parentIno) ==
    {e \in D.directory_entries : e.token = token /\ e.parent_ino = parentIno}

DirLookup(D, token, parentIno, name) ==
    IF \E e \in EntriesOf(D, token, parentIno) : e.name = name
    THEN (CHOOSE e \in EntriesOf(D, token, parentIno) : e.name = name).ino
    ELSE 0

DirExists(D, token, parentIno, name) ==
    \E e \in EntriesOf(D, token, parentIno) : e.name = name

DirIsEmpty(D, token, dirIno) == Cardinality(EntriesOf(D, token, dirIno)) = 0

(* INSERT INTO directory_entries: primary key (token, parent_ino, name),   *)
(* foreign keys (token, ino) and (token, parent_ino) into inodes.          *)
CreateEntryNoKey(D, token, parentIno, name, ino) ==
    IF ~HasInode(D, token, ino) \/ ~HasInode(D, token, parentIno)
        THEN Fail(D, "23503")
    ELSE Ok([D EXCEPT !.directory_entries = @ \cup
            {[token |-> token, parent_ino |-> parentIno, name |-> name, ino |-> ino]}])

CreateEntry(D, token, parentIno, name, ino) ==
    IF DirExists(D, token, parentIno, name) THEN Fail(D, "23505")
    ELSE IF ~HasInode(D, token, ino) \/ ~HasInode(D, token, parentIno)
        THEN Fail(D, "23503")
    ELSE Ok([D EXCEPT !.directory_entries = @ \cup
            {[token |-> token, parent_ino |-> parentIno, name |-> name, ino |-> ino]}])

DeleteEntry(D, token, parentIno, name) ==
    Ok([D EXCEPT !.directory_entries =
        {e \in @ : ~(e.token = token /\ e.parent_ino = parentIno /\ e.name = name)}])

NameRank(name) == CHOOSE i \in 1..Len(Names) : Names[i] = name

(* The entries of a directory joined with their inodes, ORDER BY name,     *)
(* LIMIT 1 OFFSET offset: the set holds the row at that position, if any.  *)
GetEntryByOffsetDescending(D, token, parentIno, offset) ==
    LET joined == {e \in EntriesOf(D, token, parentIno) : HasInode(D, token, e.ino)}
    IN {e \in joined :
            Cardinality({x \in joined : NameRank(x.name) > NameRank(e.name)}) = offset}

GetEntryByOffset(D, token, parentIno, offset) ==
    LET joined == {e \in EntriesOf(D, token, parentIno) : HasInode(D, token, e.ino)}
    IN {e \in joined :
            Cardinality({x \in joined : NameRank(x.name) < NameRank(e.name)}) = offset}

----------------------------------------------------------------------------
(* contentRepository *)

ContentGet(D, token, ino) ==
    IF \E c \in D.file_contents : c.token = token /\ c.ino = ino
    THEN (CHOOSE c \in D.file_contents : c.token = token /\ c.ino = ino).data
    ELSE <<>>

ContentGetRangeToEnd(D, token, ino, offset, length) ==
    LET data == ContentGet(D, token, ino)
    IN IF offset >= Len(data) THEN <<>> ELSE SubSeq(data, offset + 1, Len(data))

ContentGetRange(D, token, ino, offset, length) ==
    LET data == ContentGet(D, token, ino)
        dataLen == Len(data)
        available == dataLen - offset
        toRead == IF length > available THEN available ELSE length
    IN IF offset >= dataLen THEN <<>>
       ELSE SubSeq(data, offset + 1, offset + toRead)

(* INSERT ... ON CONFLICT DO UPDATE, foreign key (token, ino) into inodes. *)
ContentSet(D, token, ino, data) ==
    IF ~HasInode(D, token, ino) THEN Fail(D, "23503")
    ELSE Ok([D EXCEPT !.file_contents =
            {c \in @ : ~(c.token = token /\ c.ino = ino)} \cup
            {[token |-> token, ino |-> ino, data |-> data]}])

ContentDelete(D, token, ino) ==
    Ok([D EXCEPT !.file_contents = {c \in @ : ~(c.token = token /\ c.ino = ino)}])

----------------------------------------------------------------------------
(* Values of the service layer *)

S_IFDIR == 16384
S_IFREG == 32768
S_IRWXUGO == 511

Res(D, err, out) == [db |-> D, err |-> err, out |-> out]

NoOut == <<>>

(* The type assertion of the error to a pq.Error with Code "23505".  The   *)
(* repositories run on pgx and wrap every store error with fmt.Errorf, so  *)
(* the error that reaches the service never has the dynamic type pq.Error  *)
(* and the assertion fails.                                                *)
IsPqUniqueViolation(err) == FALSE

ModeOf(inode) ==
    IF inode.type = NodeTypeDir THEN S_IFDIR + (inode.mode % (S_IRWXUGO + 1))
    ELSE S_IFREG + (inode.mode % (S_IRWXUGO + 1))

NodeMeta(inode, parentIno) ==
    [ino |-> inode.ino, parent_ino |-> parentIno, type |-> inode.type,
     mode |-> ModeOf(inode), size |-> inode.size]

NewInode(token, ino, type, mode) ==
    [ino |-> ino, token |-> token, type |-> type, mode |-> mode,
     size |-> 0, ref_count |-> 1]

----------------------------------------------------------------------------
(* filesystemRepository.GetOrCreate *)

FsInsert(D, token) ==
    IF FsGet(D, token) # {} THEN Ok(D)      \* ON CONFLICT (token) DO NOTHING
    ELSE Ok([D EXCEPT !.filesystems = @ \cup
            {[token |-> token, root_ino |-> VTFS_ROOT_INO,
              next_ino |-> VTFS_ROOT_INO + 1]}])

GetOrCreateTxNoRoot(D, token, fault) ==
    Stmt(Stmt(Ok(D), 1, fault, LAMBDA d : Ok(d)), 2, fault,
         LAMBDA d : FsInsert(d, token))

GetOrCreateTx(D, token, fault) ==
    LET r1 == Stmt(Ok(D), 1, fault, LAMBDA d : Ok(d))
        r2 == Stmt(r1, 2, fault, LAMBDA d : FsInsert(d, token))
        r3 == Stmt(r2, 3, fault, LAMBDA d :
                InodeCreate(d, NewInode(token, VTFS_ROOT_INO, NodeTypeDir, VTFS_ROOT_MODE)))
    IN IF r1.err = "nil" /\ FsGet(D, token) # {} THEN r1 ELSE r3

GetOrCreateResetting(D, token, fault) ==
    LET row == [token |-> token, root_ino |-> VTFS_ROOT_INO,
                next_ino |-> VTFS_ROOT_INO + 1]
        root == NewInode(token, VTFS_ROOT_INO, NodeTypeDir, VTFS_ROOT_MODE)
        D2 == [D EXCEPT
                !.filesystems = {f \in @ : f.token # token} \cup {row},
                !.inodes = IF HasInode(D, token, VTFS_ROOT_INO) THEN @
                           ELSE @ \cup {root}]
    IN [db |-> D2, err |-> "nil", fs |-> {row}]

(* Returns [db, err, fs]: fs is the set holding the row read last. *)
GetOrCreate(D, token, fault) ==
    IF FsGet(D, token) # {} THEN [db |-> D, err |-> "nil", fs |-> FsGet(D, token)]
    ELSE LET tx == WithTransaction(D, GetOrCreateTx(D, token, fault), fault)
         IN IF tx.err # "nil" THEN [db |-> tx.db, err |-> tx.err, fs |-> {}]
            ELSE [db |-> tx.db, err |-> "nil", fs |-> FsGet(tx.db, token)]

----------------------------------------------------------------------------
(* fileSystemService: the calls as operators [db, err, out] *)

InitCallNoExistsCheck(D, token, fault) ==
    LET g == GetOrCreate(D, token, fault)
    IN IF g.err # "nil" THEN Res(g.db, "INTERNAL", NoOut)
       ELSE Res(g.db, "OK", NoOut)

InitCall(D, token, fault) ==
    IF FsGet(D, token) # {} THEN Res(D, "EEXIST", NoOut)
    ELSE LET g == GetOrCreate(D, token, fault)
         IN IF g.err # "nil" THEN Res(g.db, "INTERNAL", NoOut)
            ELSE Res(g.db, "OK", NoOut)

GetRootCall(D, token, fault) ==
    LET g == GetOrCreate(D, token, fault)
    IN IF g.err # "nil" THEN Res(g.db, "INTERNAL", NoOut)
       ELSE IF ~HasInode(g.db, token, VTFS_ROOT_INO) THEN Res(g.db, "ENOENT", NoOut)
       ELSE Res(g.db, "OK", NodeMeta(TheInode(g.db, token, VTFS_ROOT_INO), VTFS_ROOT_INO))

LookupCallNoDirCheck(D, token, parentIno, name) ==
    LET ino == DirLookup(D, token, parentIno, name)
    IN IF ino = 0 THEN Res(D, "ENOENT", NoOut)
       ELSE IF ~HasInode(D, token, ino) THEN Res(D, "ENOENT", NoOut)
       ELSE Res(D, "OK", NodeMeta(TheInode(D, token, ino), parentIno))

LookupCall(D, token, parentIno, name) ==
    LET ino == DirLookup(D, token, parentIno, name)
    IN IF ~IsDir(D, token, parentIno) THEN Res(D, "ENOTDIR", NoOut)
       ELSE IF ino = 0 THEN Res(D, "ENOENT", NoOut)
       ELSE IF ~HasInode(D, token, ino) THEN Res(D, "ENOENT", NoOut)
       ELSE Res(D, "OK", NodeMeta(TheInode(D, token, ino), parentIno))

IterateDirCall(D, token, dirIno, offset) ==
    LET found == GetEntryByOffset(D, token, dirIno, offset)
    IN IF ~IsDir(D, token, dirIno) THEN Res(D, "ENOTDIR", [offset |-> offset])
       ELSE IF found = {} THEN Res(D, "ENOENT", [offset |-> offset])
       ELSE LET e == CHOOSE x \in found : TRUE
            IN Res(D, "OK", [name |-> e.name, ino |-> e.ino,
                             type |-> TheInode(D, token, e.ino).type,
                             offset |-> offset + 1])

CreateTx(D, token, parentIno, name, mode, type, fault) ==
    LET newIno == GetNextIno(D, token)
        r1 == Stmt(Ok(D), 1, fault, LAMBDA d : GetNextInoStmt(d, token))
        r2 == Stmt(r1, 2, fault, LAMBDA d : InodeCreate(d, NewInode(token, newIno, type, mode)))
        r3 == Stmt(r2, 3, fault, LAMBDA d : CreateEntry(d, token, parentIno, name, newIno))
        r4 == Stmt(r3, 4, fault, LAMBDA d : IncrementNextIno(d, token))
    IN IF type = NodeTypeFile
       THEN Stmt(r4, 5, fault, LAMBDA d : ContentSet(d, token, newIno, <<>>))
       ELSE r4

CreateCallNoDirCheck(D, token, parentIno, name, mode, type, fault) ==
    IF DirExists(D, token, parentIno, name) THEN Res(D, "EEXIST", NoOut)
    ELSE LET tx == WithTransaction(D, CreateTx(D, token, parentIno, name, mode, type, fault), fault)
         IN IF tx.err # "nil"
            THEN IF IsPqUniqueViolation(tx.err) THEN Res(tx.db, "EEXIST", NoOut)
                 ELSE Res(tx.db, "INTERNAL", NoOut)
            ELSE Res(tx.db, "OK",
                     NodeMeta(NewInode(token, GetNextIno(D, token), type, mode), parentIno))

CreateCall(D, token, parentIno, name, mode, type, fault) ==
    IF ~IsDir(D, token, parentIno) THEN Res(D, "ENOTDIR", NoOut)
    ELSE IF DirExists(D, token, parentIno, name) THEN Res(D, "EEXIST", NoOut)
    ELSE LET tx == WithTransaction(D, CreateTx(D, token, parentIno, name, mode, type, fault), fault)
         IN IF tx.err # "nil"
            THEN IF IsPqUniqueViolation(tx.err) THEN Res(tx.db, "EEXIST", NoOut)
                 ELSE Res(tx.db, "INTERNAL", NoOut)
            ELSE Res(tx.db, "OK",
                     NodeMeta(NewInode(token, GetNextIno(D, token), type, mode), parentIno))

CreateFileCall(D, token, parentIno, name, mode, fault) ==
    CreateCall(D, token, parentIno, name, mode, NodeTypeFile, fault)

CreateDirCall(D, token, parentIno, name, mode, fault) ==
    CreateCall(D, token, parentIno, name, mode, NodeTypeDir, fault)

UnlinkTxAlwaysDelete(D, token, parentIno, name, ino, fault) ==
    LET r1 == Stmt(Ok(D), 1, fault, LAMBDA d : DeleteEntry(d, token, parentIno, name))
        r2 == Stmt(r1, 2, fault, LAMBDA d : UpdateRefCount(d, token, ino, -1))
        r4 == Stmt(r2, 4, fault, LAMBDA d : ContentDelete(d, token, ino))
    IN Stmt(r4, 5, fault, LAMBDA d : InodeDelete(d, token, ino))

UnlinkTx(D, token, parentIno, name, ino, fault) ==
    LET r1 == Stmt(Ok(D), 1, fault, LAMBDA d : DeleteEntry(d, token, parentIno, name))
        r2 == Stmt(r1, 2, fault, LAMBDA d : UpdateRefCount(d, token, ino, -1))
        r3 == Stmt(r2, 3, fault, LAMBDA d : Ok(d))
        r4 == Stmt(r3, 4, fault, LAMBDA d : ContentDelete(d, token, ino))
        r5 == Stmt(r4, 5, fault, LAMBDA d : InodeDelete(d, token, ino))
    IN IF r3.err = "nil" /\ HasInode(r3.db, token, ino)
            /\ TheInode(r3.db, token, ino).ref_count = 0
       THEN r5 ELSE r3

UnlinkCall(D, token, parentIno, name, fault) ==
    LET ino == DirLookup(D, token, parentIno, name)
    IN IF ino = 0 THEN Res(D, "ENOENT", NoOut)
       ELSE IF ~IsFile(D, token, ino) THEN Res(D, "EPERM", NoOut)
       ELSE LET tx == WithTransaction(D, UnlinkTx(D, token, parentIno, name, ino, fault), fault)
            IN IF tx.err # "nil" THEN Res(tx.db, "INTERNAL", NoOut)
               ELSE Res(tx.db, "OK", NoOut)

RmdirTx(D, token, parentIno, name, ino, fault) ==
    LET r1 == Stmt(Ok(D), 1, fault, LAMBDA d : DeleteEntry(d, token, parentIno, name))
    IN Stmt(r1, 2, fault, LAMBDA d : InodeDelete(d, token, ino))

RmdirCallNoEmptyCheck(D, token, parentIno, name, fault) ==
    LET ino == DirLookup(D, token, parentIno, name)
    IN IF ino = 0 THEN Res(D, "ENOENT", NoOut)
       ELSE IF ~IsDir(D, token, ino) THEN Res(D, "ENOTDIR", NoOut)
       ELSE IF ino = VTFS_ROOT_INO THEN Res(D, "EPERM", NoOut)
       ELSE LET tx == WithTransaction(D, RmdirTx(D, token, parentIno, name, ino, fault), fault)
            IN IF tx.err # "nil" THEN Res(tx.db, "INTERNAL", NoOut)
               ELSE Res(tx.db, "OK", NoOut)

RmdirCallEmptyCheckFirst(D, token, parentIno, name, fault) ==
    LET ino == DirLookup(D, token, parentIno, name)
    IN IF ino = 0 THEN Res(D, "ENOENT", NoOut)
       ELSE IF ~DirIsEmpty(D, token, ino) THEN Res(D, "ENOTEMPTY", NoOut)
       ELSE IF ~IsDir(D, token, ino) THEN Res(D, "ENOTDIR", NoOut)
       ELSE IF ino = VTFS_ROOT_INO THEN Res(D, "EPERM", NoOut)
       ELSE LET tx == WithTransaction(D, RmdirTx(D, token, parentIno, name, ino, fault), fault)
            IN IF tx.err # "nil" THEN Res(tx.db, "INTERNAL", NoOut)
               ELSE Res(tx.db, "OK", NoOut)

RmdirCall(D, token, parentIno, name, fault) ==
    LET ino == DirLookup(D, token, parentIno, name)
    IN IF ino = 0 THEN Res(D, "ENOENT", NoOut)
       ELSE IF ~IsDir(D, token, ino) THEN Res(D, "ENOTDIR", NoOut)
       ELSE IF ino = VTFS_ROOT_INO THEN Res(D, "EPERM", NoOut)
       ELSE IF ~DirIsEmpty(D, token, ino) THEN Res(D, "ENOTEMPTY", NoOut)
       ELSE LET tx == WithTransaction(D, RmdirTx(D, token, parentIno, name, ino, fault), fault)
            IN IF tx.err # "nil" THEN Res(tx.db, "INTERNAL", NoOut)
               ELSE Res(tx.db, "OK", NoOut)

ReadCall(D, token, ino, bufLen, offset) ==
    IF ~HasInode(D, token, ino) THEN Res(D, "ENOENT", [n |-> 0, data |-> <<>>])
    ELSE IF TheInode(D, token, ino).type # NodeTypeFile
        THEN Res(D, "EISDIR", [n |-> 0, data |-> <<>>])
    ELSE IF offset < 0 THEN Res(D, "EINVAL", [n |-> 0, data |-> <<>>])
    ELSE LET available == TheInode(D, token, ino).size - offset
             toRead == IF bufLen > available THEN available ELSE bufLen
             data == ContentGetRange(D, token, ino, offset, toRead)
         IN IF available <= 0 THEN Res(D, "OK", [n |-> 0, data |-> <<>>])
            ELSE Res(D, "OK", [n |-> Len(data), data |-> data])

(* The blob Write stores: the current content, zero-extended to            *)
(* offset+length when that is longer, with data[:length] copied in at      *)
(* offset.                                                                 *)
WriteBlobNoGap(currentData, data, length, offset) ==
    IF offset >= Len(currentData) THEN currentData \o SubSeq(data, 1, length)
    ELSE [i \in 1..(IF offset + length > Len(currentData) THEN offset + length
                    ELSE Len(currentData)) |->
            IF i > offset /\ i <= offset + length THEN data[i - offset]
            ELSE currentData[i]]

WriteBlobTruncating(currentData, data, length, offset) ==
    [i \in 1..(offset + length) |->
            IF i > offset THEN data[i - offset]
            ELSE IF i <= Len(currentData) THEN currentData[i]
            ELSE 0]

WriteBlob(currentData, data, length, offset) ==
    LET newSize == offset + length
        size == IF newSize > Len(currentData) THEN newSize ELSE Len(currentData)
    IN [i \in 1..size |->
            IF i > offset /\ i <= offset + length THEN data[i - offset]
            ELSE IF i <= Len(currentData) THEN currentData[i]
            ELSE 0]

WriteTx(D, token, ino, data, length, offset, fault) ==
    LET blob == WriteBlob(ContentGet(D, token, ino), data, length, offset)
        r1 == Stmt(Ok(D), 1, fault, LAMBDA d : Ok(d))
        r2 == Stmt(r1, 2, fault, LAMBDA d : ContentSet(d, token, ino, blob))
    IN Stmt(r2, 3, fault, LAMBDA d : UpdateSize(d, token, ino, Len(blob)))

WriteCallNoFileCheck(D, token, ino, data, length, offset, fault) ==
    IF length > Len(data) THEN Res(D, "EINVAL", [n |-> 0])
    ELSE IF offset < 0 THEN Res(D, "EINVAL", [n |-> 0])
    ELSE IF ~HasInode(D, token, ino) THEN Res(D, "ENOENT", [n |-> 0])
    ELSE LET tx == WithTransaction(D, WriteTx(D, token, ino, data, length, offset, fault), fault)
         IN IF tx.err # "nil" THEN Res(tx.db, "INTERNAL", [n |-> 0])
            ELSE Res(tx.db, "OK", [n |-> length])

WriteCall(D, token, ino, data, length, offset, fault) ==
    IF length > Len(data) THEN Res(D, "EINVAL", [n |-> 0])
    ELSE IF offset < 0 THEN Res(D, "EINVAL", [n |-> 0])
    ELSE IF ~HasInode(D, token, ino) THEN Res(D, "ENOENT", [n |-> 0])
    ELSE IF TheInode(D, token, ino).type # NodeTypeFile THEN Res(D, "EISDIR", [n |-> 0])
    ELSE LET tx == WithTransaction(D, WriteTx(D, token, ino, data, length, offset, fault), fault)
         IN IF tx.err # "nil" THEN Res(tx.db, "INTERNAL", [n |-> 0])
            ELSE Res(tx.db, "OK", [n |-> length])

LinkTxNoCount(D, token, targetIno, parentIno, name, fault) ==
    Stmt(Ok(D), 1, fault, LAMBDA d : CreateEntry(d, token, parentIno, name, targetIno))

LinkTx(D, token, targetIno, parentIno, name, fault) ==
    LET r1 == Stmt(Ok(D), 1, fault, LAMBDA d : CreateEntry(d, token, parentIno, name, targetIno))
    IN Stmt(r1, 2, fault, LAMBDA d : UpdateRefCount(d, token, targetIno, 1))

LinkCallAnyTarget(D, token, targetIno, parentIno, name, fault) ==
    IF ~HasInode(D, token, targetIno) THEN Res(D, "ENOENT", NoOut)
    ELSE IF DirExists(D, token, parentIno, name) THEN Res(D, "EEXIST", NoOut)
    ELSE LET tx == WithTransaction(D, LinkTx(D, token, targetIno, parentIno, name, fault), fault)
         IN IF tx.err # "nil" THEN Res(tx.db, "INTERNAL", NoOut)
            ELSE Res(tx.db, "OK", NoOut)

LinkCall(D, token, targetIno, parentIno, name, fault) ==
    IF ~HasInode(D, token, targetIno) THEN Res(D, "ENOENT", NoOut)
    ELSE IF TheInode(D, token, targetIno).type # NodeTypeFile THEN Res(D, "EISDIR", NoOut)
    ELSE IF DirExists(D, token, parentIno, name) THEN Res(D, "EEXIST", NoOut)
    ELSE LET tx == WithTransaction(D, LinkTx(D, token, targetIno, parentIno, name, fault), fault)
         IN IF tx.err # "nil"
            THEN IF IsPqUniqueViolation(tx.err) THEN Res(tx.db, "EEXIST", NoOut)
                 ELSE Res(tx.db, "INTERNAL", NoOut)
            ELSE Res(tx.db, "OK", NoOut)

(* uint32(inode.RefCount): the identity on the non-negative counts; a      *)
(* negative count wraps to 2^32 + n, which is kept as a tagged value since *)
(* it is no count the model can hold as a number.                          *)
Uint32(n) == IF n >= 0 THEN n ELSE [wrapped |-> n]

CountLinksCall(D, token, ino) ==
    IF ~HasInode(D, token, ino) THEN Res(D, "ENOENT", [count |-> 0])
    ELSE Res(D, "OK", [count |-> Uint32(TheInode(D, token, ino).ref_count)])

----------------------------------------------------------------------------
(* The state machine: one action per service call *)

DB == [filesystems |-> filesystems, inodes |-> inodes,
       directory_entries |-> directory_entries, file_contents |-> file_contents]

Store(D) ==
    /\ filesystems' = D.filesystems
    /\ inodes' = D.inodes
    /\ directory_entries' = D.directory_entries
    /\ file_contents' = D.file_contents

(* The tables after the step *)
DBn == [filesystems |-> filesystems', inodes |-> inodes',
        directory_entries |-> directory_entries', file_contents |-> file_contents']

(* What the caller of a mutating call gets back: the error and, from a     *)
(* create, the inode number of the returned metadata (0 otherwise).        *)
Called(token, r, ino) ==
    /\ Store(r.db)
    /\ last' = [token |-> token, err |-> r.err, ino |-> ino]

(* A call that only reads: the tables it returns are the tables it found. *)
Queried(r) ==
    /\ Store(r.db)
    /\ UNCHANGED <<last, created, aborted, pending>>

(* The model stops allocating once a namespace has handed out MaxCreates   *)
(* numbers, and stops adding names once MaxEntries entries exist.          *)
MayCreate(token) ==
    /\ GetNextIno(DB, token) <= VTFS_ROOT_INO + MaxCreates
    /\ Cardinality(directory_entries) < MaxEntries

MayLink == Cardinality(directory_entries) < MaxEntries

Init ==
    /\ filesystems = {}
    /\ inodes = {}
    /\ directory_entries = {}
    /\ file_contents = {}
    /\ last = [token |-> "", err |-> "OK", ino |-> 0]
    /\ created = {}
    /\ aborted = {}
    /\ pending = {}

ServiceInit(token, fault) ==
    /\ Called(token, InitCall(DB, token, fault), 0)
    /\ UNCHANGED <<created, aborted, pending>>

GetRoot(token, fault) ==
    /\ Called(token, GetRootCall(DB, token, fault), 0)
    /\ UNCHANGED <<created, aborted, pending>>

Lookup(token, parentIno, name) ==
    Queried(LookupCall(DB, token, parentIno, name))

IterateDir(token, dirIno, offset) ==
    Queried(IterateDirCall(DB, token, dirIno, offset))

(* A CreateFile that fails at the insert of the inode (statement 2) or of  *)
(* the entry (statement 3) has read its inode number from the counter and  *)
(* has not inserted the entry: the number is recorded in aborted.          *)
CreateFile(token, parentIno, name, mode, fault) ==
    LET r == CreateFileCall(DB, token, parentIno, name, mode, fault)
    IN /\ MayCreate(token)
       /\ Called(token, r, IF r.err = "OK" THEN r.out.ino ELSE 0)
       /\ created' = IF r.err = "OK" THEN created \cup {<<token, r.out.ino>>} ELSE created
       /\ aborted' = IF r.err = "INTERNAL" /\ fault \in {2, 3}
                     THEN aborted \cup {<<token, GetNextIno(DB, token)>>} ELSE aborted
       /\ UNCHANGED pending

CreateDir(token, parentIno, name, mode, fault) ==
    LET r == CreateDirCall(DB, token, parentIno, name, mode, fault)
    IN /\ MayCreate(token)
       /\ Called(token, r, IF r.err = "OK" THEN r.out.ino ELSE 0)
       /\ created' = IF r.err = "OK" THEN created \cup {<<token, r.out.ino>>} ELSE created
       /\ UNCHANGED <<aborted, pending>>

Unlink(token, parentIno, name, fault) ==
    /\ Called(token, UnlinkCall(DB, token, parentIno, name, fault), 0)
    /\ UNCHANGED <<created, aborted, pending>>

Rmdir(token, parentIno, name, fault) ==
    /\ Called(token, RmdirCall(DB, token, parentIno, name, fault), 0)
    /\ UNCHANGED <<created, aborted, pending>>

Read(token, ino, bufLen, offset) ==
    Queried(ReadCall(DB, token, ino, bufLen, offset))

Write(token, ino, data, length, offset, fault) ==
    /\ Called(token, WriteCall(DB, token, ino, data, length, offset, fault), 0)
    /\ UNCHANGED <<created, aborted, pending>>

Link(token, targetIno, parentIno, name, fault) ==
    /\ MayLink
    /\ Called(token, LinkCall(DB, token, targetIno, parentIno, name, fault), 0)
    /\ UNCHANGED <<created, aborted, pending>>

CountLinks(token, ino) ==
    Queried(CountLinksCall(DB, token, ino))

(* One mutating call, with the store faults of F: 0 is a store that works, *)
(* k > 0 makes the k-th statement of the call's transaction fail.          *)
Mutate(F) ==
    \E token \in Tokens, fault \in F :
        \/ ServiceInit(token, fault)
        \/ GetRoot(token, fault)
        \/ \E p \in Inos, n \in NameSet, m \in Modes : CreateFile(token, p, n, m, fault)
        \/ \E p \in Inos, n \in NameSet, m \in Modes : CreateDir(token, p, n, m, fault)
        \/ \E p \in Inos, n \in NameSet : Unlink(token, p, n, fault)
        \/ \E p \in Inos, n \in NameSet : Rmdir(token, p, n, fault)
        \/ \E i \in Inos, d \in DataBufs, l \in Lengths, o \in Offsets :
                Write(token, i, d, l, o, fault)
        \/ \E t \in Inos, p \in Inos, n \in NameSet : Link(token, t, p, n, fault)

Query ==
    \E token \in Tokens :
        \/ \E p \in Inos, n \in NameSet : Lookup(token, p, n)
        \/ \E d \in Inos, o \in Cursors : IterateDir(token, d, o)
        \/ \E i \in Inos, o \in Offsets : Read(token, i, 1, o)
        \/ \E i \in Inos : CountLinks(token, i)

TxFaults == 1..5

(* The calls one after another, over a store that works. *)
Next == Mutate({0}) \/ Query

Spec == Init /\ [][Next]_vars

(* The same calls over a store whose statements may fail. *)
NextFault == Mutate({0} \cup TxFaults)

SpecFault == Init /\ [][NextFault]_vars

(* The same calls over a store whose commit may fail: with fault -1 every  *)
(* statement of the transaction runs and Commit returns an error.          *)
CommitFault == -1

NextCommit == Mutate({0, CommitFault}) \/ Query

SpecCommit == Init /\ [][NextCommit]_vars

(* The calls of two namespaces one after another, over a store that works. *)
(* The inode numbers of a namespace start at the same root, so the two     *)
(* namespaces hold the same numbers under the same names; MaxCreates       *)
(* bounds the creates of both together.                                    *)
BothTokens == Tokens \cup {"tok2"}

NextTokens ==
    \E token \in BothTokens :
        \/ ServiceInit(token, 0)
        \/ GetRoot(token, 0)
        \/ \E p \in Inos, n \in NameSet, m \in Modes :
            /\ Cardinality(created) < MaxCreates
            /\ CreateFile(token, p, n, m, 0)
        \/ \E p \in Inos, n \in NameSet, m \in Modes :
            /\ Cardinality(created) < MaxCreates
            /\ CreateDir(token, p, n, m, 0)
        \/ \E p \in Inos, n \in NameSet : Unlink(token, p, n, 0)
        \/ \E p \in Inos, n \in NameSet : Rmdir(token, p, n, 0)
        \/ \E i \in Inos, d \in DataBufs, l \in Lengths, o \in Offsets :
                Write(token, i, d, l, o, 0)
        \/ \E t \in Inos, p \in Inos, n \in NameSet : Link(token, t, p, n, 0)
        \/ \E p \in Inos, n \in NameSet : Lookup(token, p, n)
        \/ \E d \in Inos, o \in Cursors : IterateDir(token, d, o)
        \/ \E i \in Inos, o \in Offsets : Read(token, i, 1, o)
        \/ \E i \in Inos : CountLinks(token, i)

SpecTokens == Init /\ [][NextTokens]_vars

----------------------------------------------------------------------------
(* Two callers: an Unlink whose checks have passed waits for its           *)
(* transaction while the other caller's calls run.  The transaction of     *)
(* Unlink starts with its writes (DELETE of the entry, UPDATE of the       *)
(* inode), so it runs as one step once it has the rows.                    *)

UnlinkBegin(token, parentIno, name) ==
    LET ino == DirLookup(DB, token, parentIno, name)
    IN /\ Cardinality(pending) < MaxPending
       /\ ino # 0
       /\ IsFile(DB, token, ino)
       /\ pending' = pending \cup
            {[token |-> token, parent_ino |-> parentIno, name |-> name, ino |-> ino]}
       /\ UNCHANGED <<tables, last, created, aborted>>

UnlinkEnd(q) ==
    LET tx == WithTransaction(DB, UnlinkTx(DB, q.token, q.parent_ino, q.name, q.ino, 0), 0)
    IN /\ Called(q.token, Res(tx.db, IF tx.err # "nil" THEN "INTERNAL" ELSE "OK", NoOut), 0)
       /\ pending' = pending \ {q}
       /\ UNCHANGED <<created, aborted>>

NextRace ==
    \/ Next
    \/ \E token \in Tokens, p \in Inos, n \in NameSet : UnlinkBegin(token, p, n)
    \/ \E q \in pending : UnlinkEnd(q)

SpecRace == Init /\ [][NextRace]_vars

----------------------------------------------------------------------------
(* The content calls, with two callers of Write.  The transaction of Write *)
(* reads the content (statement 1) and then writes the blob it built from  *)
(* it and the size (statements 2 and 3): the store runs each statement on  *)
(* the rows committed by then, so another call may commit between the read *)
(* and the writes, and the writes, which lock the content row first, run   *)
(* as one step.                                                            *)

(* Statements 2 and 3 of the transaction of Write *)
WriteStore(D, token, ino, blob, fault) ==
    LET r2 == Stmt(Ok(D), 2, fault, LAMBDA d : ContentSet(d, token, ino, blob))
    IN Stmt(r2, 3, fault, LAMBDA d : UpdateSize(d, token, ino, Len(blob)))

WriteBegin(token, ino, data, length, offset) ==
    /\ Cardinality(pending) < MaxPending
    /\ length <= Len(data)
    /\ offset >= 0
    /\ IsFile(DB, token, ino)
    /\ pending' = pending \cup
            {[token |-> token, ino |-> ino, data |-> data, length |-> length,
              offset |-> offset, currentData |-> ContentGet(DB, token, ino)]}
    /\ UNCHANGED <<tables, last, created, aborted>>

WriteEndCallMerging(D, q) ==
    LET blob == WriteBlob(ContentGet(D, q.token, q.ino), q.data, q.length, q.offset)
        tx == WithTransaction(D, WriteStore(D, q.token, q.ino, blob, 0), 0)
    IN IF tx.err # "nil" THEN Res(tx.db, "INTERNAL", [n |-> 0])
       ELSE Res(tx.db, "OK", [n |-> q.length])

WriteEndCall(D, q) ==
    LET blob == WriteBlob(q.currentData, q.data, q.length, q.offset)
        tx == WithTransaction(D, WriteStore(D, q.token, q.ino, blob, 0), 0)
    IN IF tx.err # "nil" THEN Res(tx.db, "INTERNAL", [n |-> 0])
       ELSE Res(tx.db, "OK", [n |-> q.length])

WriteEnd(q) ==
    /\ Called(q.token, WriteEndCall(DB, q), 0)
    /\ pending' = pending \ {q}
    /\ UNCHANGED <<created, aborted>>

NextIO ==
    \/ \E token \in Tokens :
        \/ ServiceInit(token, 0)
        \/ \E n \in NameSet, m \in Modes : CreateFile(token, VTFS_ROOT_INO, n, m, 0)
        \/ \E n \in NameSet : Unlink(token, VTFS_ROOT_INO, n, 0)
        \/ \E i \in Inos, d \in IOData, l \in IOLengths, o \in IOOffsets :
            /\ o + l <= MaxSize
            /\ Write(token, i, d, l, o, 0)
        \/ \E i \in Inos, o \in IOOffsets : Read(token, i, MaxSize, o)
        \/ \E i \in Inos, d \in IOData, l \in IOLengths, o \in IOOffsets :
            /\ o + l <= MaxSize
            /\ WriteBegin(token, i, d, l, o)
    \/ \E q \in pending : WriteEnd(q)

SpecIO == Init /\ [][NextIO]_vars

(* One caller of the content calls, whose Writes may be of length 0. *)
NextWrite ==
    \E token \in Tokens :
        \/ ServiceInit(token, 0)
        \/ \E n \in NameSet, m \in Modes : CreateFile(token, VTFS_ROOT_INO, n, m, 0)
        \/ \E n \in NameSet : Unlink(token, VTFS_ROOT_INO, n, 0)
        \/ \E i \in Inos, d \in IOData, l \in WLengths, o \in IOOffsets :
            /\ o + l <= MaxSize
            /\ Write(token, i, d, l, o, 0)
        \/ \E i \in Inos, o \in IOOffsets : Read(token, i, MaxSize, o)

SpecWrite == Init /\ [][NextWrite]_vars

----------------------------------------------------------------------------
(* Two callers of the calls that insert: CreateFile, CreateDir and Link on *)
(* a name, GetRoot and Init on a token.  A call in flight has passed its   *)
(* checks; its transaction reads (the counter in a create, the namespace   *)
(* row in GetOrCreate) before it inserts, and the store runs each          *)
(* statement on the rows committed by then.  An INSERT that meets a row    *)
(* another transaction has inserted waits for that transaction, so the     *)
(* inserts of a transaction run as one step after the other has committed. *)

(* A call in flight.  ino is the target of a Link and the number a create  *)
(* has read from the counter, 0 before it has.                             *)
Flight(op, token, parentIno, name, mode, type, ino) ==
    [op |-> op, token |-> token, parent_ino |-> parentIno, name |-> name,
     mode |-> mode, type |-> type, ino |-> ino]

(* Statements 2 to 5 of the transaction of a create *)
CreateStore(D, token, parentIno, name, mode, type, newIno, fault) ==
    LET r2 == Stmt(Ok(D), 2, fault, LAMBDA d : InodeCreate(d, NewInode(token, newIno, type, mode)))
        r3 == Stmt(r2, 3, fault, LAMBDA d : CreateEntry(d, token, parentIno, name, newIno))
        r4 == Stmt(r3, 4, fault, LAMBDA d : IncrementNextIno(d, token))
    IN IF type = NodeTypeFile
       THEN Stmt(r4, 5, fault, LAMBDA d : ContentSet(d, token, newIno, <<>>))
       ELSE r4

CreateBegin(token, parentIno, name, mode, type) ==
    /\ Cardinality(pending) < MaxPending
    /\ MayCreate(token)
    /\ IsDir(DB, token, parentIno)
    /\ ~DirExists(DB, token, parentIno, name)
    /\ pending' = pending \cup {Flight("create", token, parentIno, name, mode, type, 0)}
    /\ UNCHANGED <<tables, last, created, aborted>>

(* Statement 1 of the transaction of a create: GetNextIno *)
CreateAlloc(q) ==
    /\ q.op = "create"
    /\ q.ino = 0
    /\ FsGet(DB, q.token) # {}
    /\ pending' = (pending \ {q}) \cup {[q EXCEPT !.ino = GetNextIno(DB, q.token)]}
    /\ UNCHANGED <<tables, last, created, aborted>>

CreateEndCall(D, q) ==
    LET tx == WithTransaction(D,
            CreateStore(D, q.token, q.parent_ino, q.name, q.mode, q.type, q.ino, 0), 0)
    IN IF tx.err # "nil"
       THEN IF IsPqUniqueViolation(tx.err) THEN Res(tx.db, "EEXIST", NoOut)
            ELSE Res(tx.db, "INTERNAL", NoOut)
       ELSE Res(tx.db, "OK",
                NodeMeta(NewInode(q.token, q.ino, q.type, q.mode), q.parent_ino))

CreateEnd(q) ==
    LET r == CreateEndCall(DB, q)
    IN /\ q.op = "create"
       /\ q.ino # 0
       /\ Called(q.token, r, IF r.err = "OK" THEN r.out.ino ELSE 0)
       /\ created' = IF r.err = "OK" THEN created \cup {<<q.token, r.out.ino>>} ELSE created
       /\ pending' = pending \ {q}
       /\ UNCHANGED aborted

LinkBegin(token, targetIno, parentIno, name) ==
    /\ Cardinality(pending) < MaxPending
    /\ MayLink
    /\ IsFile(DB, token, targetIno)
    /\ ~DirExists(DB, token, parentIno, name)
    /\ pending' = pending \cup
            {Flight("link", token, parentIno, name, 0, NodeTypeFile, targetIno)}
    /\ UNCHANGED <<tables, last, created, aborted>>

LinkEndCall(D, q) ==
    LET tx == WithTransaction(D, LinkTx(D, q.token, q.ino, q.parent_ino, q.name, 0), 0)
    IN IF tx.err # "nil"
       THEN IF IsPqUniqueViolation(tx.err) THEN Res(tx.db, "EEXIST", NoOut)
            ELSE Res(tx.db, "INTERNAL", NoOut)
       ELSE Res(tx.db, "OK", NoOut)

LinkEnd(q) ==
    /\ q.op = "link"
    /\ Called(q.token, LinkEndCall(DB, q), 0)
    /\ pending' = pending \ {q}
    /\ UNCHANGED <<created, aborted>>

(* The inserts of the transaction of GetOrCreate: the namespace row, ON    *)
(* CONFLICT DO NOTHING, and the root inode.                                *)
GetOrCreateStore(D, token, fault) ==
    LET r2 == Stmt(Ok(D), 2, fault, LAMBDA d : FsInsert(d, token))
    IN Stmt(r2, 3, fault, LAMBDA d :
            InodeCreate(d, NewInode(token, VTFS_ROOT_INO, NodeTypeDir, VTFS_ROOT_MODE)))

(* GetRoot or Init whose reads of the namespace row, before and inside the *)
(* transaction of GetOrCreate, have found none.                            *)
GetOrCreateBegin(token, op) ==
    /\ Cardinality(pending) < MaxPending
    /\ FsGet(DB, token) = {}
    /\ pending' = pending \cup {Flight(op, token, 0, "", 0, NodeTypeDir, 0)}
    /\ UNCHANGED <<tables, last, created, aborted>>

GetOrCreateEndCall(D, q) ==
    LET tx == WithTransaction(D, GetOrCreateStore(D, q.token, 0), 0)
    IN IF tx.err # "nil" THEN Res(tx.db, "INTERNAL", NoOut)
       ELSE IF q.op = "Init" THEN Res(tx.db, "OK", NoOut)
       ELSE IF ~HasInode(tx.db, q.token, VTFS_ROOT_INO) THEN Res(tx.db, "ENOENT", NoOut)
       ELSE Res(tx.db, "OK",
                NodeMeta(TheInode(tx.db, q.token, VTFS_ROOT_INO), VTFS_ROOT_INO))

GetOrCreateEnd(q) ==
    /\ q.op \in {"GetRoot", "Init"}
    /\ Called(q.token, GetOrCreateEndCall(DB, q), 0)
    /\ pending' = pending \ {q}
    /\ UNCHANGED <<created, aborted>>

NextInsert ==
    \/ \E token \in Tokens :
        \/ ServiceInit(token, 0)
        \/ GetRoot(token, 0)
        \/ \E p \in Inos, n \in NameSet, m \in Modes : CreateFile(token, p, n, m, 0)
        \/ \E p \in Inos, n \in NameSet, m \in Modes : CreateDir(token, p, n, m, 0)
        \/ \E t \in Inos, p \in Inos, n \in NameSet : Link(token, t, p, n, 0)
        \/ \E p \in Inos, n \in NameSet : Unlink(token, p, n, 0)
        \/ \E p \in Inos, n \in NameSet, m \in Modes, k \in {NodeTypeFile, NodeTypeDir} :
            CreateBegin(token, p, n, m, k)
        \/ \E t \in Inos, p \in Inos, n \in NameSet : LinkBegin(token, t, p, n)
        \/ \E op \in {"GetRoot", "Init"} : GetOrCreateBegin(token, op)
    \/ \E q \in pending : CreateAlloc(q)
    \/ \E q \in pending : CreateEnd(q)
    \/ \E q \in pending : LinkEnd(q)
    \/ \E q \in pending : GetOrCreateEnd(q)

SpecInsert == Init /\ [][NextInsert]_vars

----------------------------------------------------------------------------
(* Callers of Link and Unlink on the files of the root, MaxFlights of them *)
(* in flight at once.  A Link in flight has read the target inode, and     *)
(* with it the ref_count it saw; an Unlink in flight has looked the entry  *)
(* up.  Each transaction starts with a write, so it runs as one step.      *)

CountFlight(op, token, parentIno, name, ino, seen) ==
    [op |-> op, token |-> token, parent_ino |-> parentIno, name |-> name,
     ino |-> ino, seen |-> seen]

CountLinkBegin(token, targetIno, parentIno, name) ==
    /\ Cardinality(pending) < MaxFlights
    /\ MayLink
    /\ IsFile(DB, token, targetIno)
    /\ ~DirExists(DB, token, parentIno, name)
    /\ pending' = pending \cup
            {CountFlight("link", token, parentIno, name, targetIno,
                         TheInode(DB, token, targetIno).ref_count)}
    /\ UNCHANGED <<tables, last, created, aborted>>

CountUnlinkBegin(token, parentIno, name) ==
    LET ino == DirLookup(DB, token, parentIno, name)
    IN /\ Cardinality(pending) < MaxFlights
       /\ ino # 0
       /\ IsFile(DB, token, ino)
       /\ pending' = pending \cup {CountFlight("unlink", token, parentIno, name, ino, 0)}
       /\ UNCHANGED <<tables, last, created, aborted>>

UnlinkEndCall(D, q) ==
    LET tx == WithTransaction(D, UnlinkTx(D, q.token, q.parent_ino, q.name, q.ino, 0), 0)
    IN IF tx.err # "nil" THEN Res(tx.db, "INTERNAL", NoOut)
       ELSE Res(tx.db, "OK", NoOut)

(* A Link that writes the ref_count it read plus one *)
CountEndCallSeen(D, q) ==
    IF q.op = "link"
    THEN LET r1 == CreateEntry(D, q.token, q.parent_ino, q.name, q.ino)
         IN IF r1.err # "nil" THEN Res(D, "INTERNAL", NoOut)
            ELSE Res([r1.db EXCEPT !.inodes =
                        {IF i.token = q.token /\ i.ino = q.ino
                            THEN [i EXCEPT !.ref_count = q.seen + 1] ELSE i
                            : i \in r1.db.inodes}], "OK", NoOut)
    ELSE UnlinkEndCall(D, q)

CountEndCall(D, q) ==
    IF q.op = "link" THEN LinkEndCall(D, q) ELSE UnlinkEndCall(D, q)

CountEnd(q) ==
    /\ Called(q.token, CountEndCall(DB, q), 0)
    /\ pending' = pending \ {q}
    /\ UNCHANGED <<created, aborted>>

NextCount ==
    \/ \E token \in Tokens :
        \/ ServiceInit(token, 0)
        \/ \E n \in NameSet, m \in Modes : CreateFile(token, VTFS_ROOT_INO, n, m, 0)
        \/ \E t \in Inos, p \in Inos, n \in NameSet : CountLinkBegin(token, t, p, n)
        \/ \E p \in Inos, n \in NameSet : CountUnlinkBegin(token, p, n)
    \/ \E q \in pending : CountEnd(q)

SpecCount == Init /\ [][NextCount]_vars

----------------------------------------------------------------------------
(* Two callers: an Rmdir whose checks have passed (the entry resolves to a *)
(* directory other than the root that owns no entry) waits for its         *)
(* transaction while the other caller's calls run.  The transaction starts *)
(* with a write, so it runs as one step.                                   *)

RmdirBegin(token, parentIno, name) ==
    LET ino == DirLookup(DB, token, parentIno, name)
    IN /\ Cardinality(pending) < MaxPending
       /\ ino # 0
       /\ IsDir(DB, token, ino)
       /\ ino # VTFS_ROOT_INO
       /\ DirIsEmpty(DB, token, ino)
       /\ pending' = pending \cup
            {[token |-> token, parent_ino |-> parentIno, name |-> name, ino |-> ino]}
       /\ UNCHANGED <<tables, last, created, aborted>>

RmdirEndCall(D, q) ==
    LET tx == WithTransaction(D, RmdirTx(D, q.token, q.parent_ino, q.name, q.ino, 0), 0)
    IN IF tx.err # "nil" THEN Res(tx.db, "INTERNAL", NoOut)
       ELSE Res(tx.db, "OK", NoOut)

RmdirEnd(q) ==
    /\ Called(q.token, RmdirEndCall(DB, q), 0)
    /\ pending' = pending \ {q}
    /\ UNCHANGED <<created, aborted>>

NextRmdir ==
    \/ Next
    \/ \E token \in Tokens, p \in Inos, n \in NameSet : RmdirBegin(token, p, n)
    \/ \E q \in pending : RmdirEnd(q)

SpecRmdir == Init /\ [][NextRmdir]_vars

----------------------------------------------------------------------------
(* kerrors and the handlers' response code *)

EPERM == 1
ENOENT == 2
ENOMEM == 12
EEXIST == 17
ENOTDIR == 20
EISDIR == 21
EINVAL == 22
ENOTEMPTY == 39
ENOMEM_NEG == -ENOMEM

(* The errors the service returns as a ServiceError, with the Code it      *)
(* gives each; every other error is a wrapped store error.                 *)
ServiceErrors ==
    {"EPERM", "ENOENT", "EEXIST", "ENOTDIR", "EISDIR", "EINVAL", "ENOTEMPTY"}

ServiceErrorCode(err) ==
    CASE err = "EPERM" -> EPERM
      [] err = "ENOENT" -> ENOENT
      [] err = "EEXIST" -> EEXIST
      [] err = "ENOTDIR" -> ENOTDIR
      [] err = "EISDIR" -> EISDIR
      [] err = "EINVAL" -> EINVAL
      [] err = "ENOTEMPTY" -> ENOTEMPTY

mapErrorToCode(err) ==
    IF err \in ServiceErrors THEN ServiceErrorCode(err) ELSE ENOMEM_NEG

(* The code a handler hands to binary.WriteResponse for the result of the  *)
(* service call.                                                           *)
ResponseCode(err) == IF err = "OK" THEN 0 ELSE mapErrorToCode(err)

----------------------------------------------------------------------------
(* Properties *)

EntriesTo(D, token, ino) ==
    {e \in D.directory_entries : e.token = token /\ e.ino = ino}

(* The inodes a create returned that exist no more *)
Destroyed == {c \in created : ~HasInode(DB, c[1], c[2])}

AllFaults == {0} \cup TxFaults

(* C1 (ref-count identity), for the inodes other than the root: in every   *)
(* state reached by Init/GetRoot, CreateFile, CreateDir, Link, Unlink and  *)
(* Rmdir, an inode's ref_count is the number of directory entries whose    *)
(* target it is.                                                           *)
RefCountIdentity ==
    \A i \in inodes :
        i.ino # VTFS_ROOT_INO =>
            i.ref_count = Cardinality(EntriesTo(DB, i.token, i.ino))

(* A call's result r against the result of the same call on a store that   *)
(* works: an error leaves the four tables as they were, a success has      *)
(* applied every statement of the call.                                    *)
AllOrNothing(r, full) ==
    /\ r.err # "OK" => r.db = DB
    /\ r.err = "OK" => r.db = full.db

(* C2 (no partial effects): whichever statement of its transaction fails,  *)
(* a CreateFile, CreateDir, Unlink, Rmdir, Write or Link that returns an   *)
(* error leaves the counter, the inodes, the entries and the contents as   *)
(* they were, and one that succeeds has applied all of its statements.     *)
NoPartialEffects ==
    \A t \in Tokens, f \in AllFaults :
        /\ \A p \in Inos, n \in NameSet, m \in Modes :
            /\ AllOrNothing(CreateFileCall(DB, t, p, n, m, f),
                            CreateFileCall(DB, t, p, n, m, 0))
            /\ AllOrNothing(CreateDirCall(DB, t, p, n, m, f),
                            CreateDirCall(DB, t, p, n, m, 0))
        /\ \A p \in Inos, n \in NameSet :
            /\ AllOrNothing(UnlinkCall(DB, t, p, n, f), UnlinkCall(DB, t, p, n, 0))
            /\ AllOrNothing(RmdirCall(DB, t, p, n, f), RmdirCall(DB, t, p, n, 0))
        /\ \A i \in Inos, d \in DataBufs, l \in Lengths, o \in Offsets :
            AllOrNothing(WriteCall(DB, t, i, d, l, o, f), WriteCall(DB, t, i, d, l, o, 0))
        /\ \A i \in Inos, p \in Inos, n \in NameSet :
            AllOrNothing(LinkCall(DB, t, i, p, n, f), LinkCall(DB, t, i, p, n, 0))

(* A call has failed inside its transaction in a namespace that holds      *)
(* entries.                                                                *)
NoPartialEffectsWitness ==
    /\ last.err = "INTERNAL"
    /\ directory_entries # {}

(* Lookup(parentIno, name) returns inode ino *)
ResolvesTo(D, token, parentIno, name, ino) ==
    LET r == LookupCall(D, token, parentIno, name)
    IN r.err = "OK" /\ r.out.ino = ino

(* CountLinks(ino) returns n *)
HasLinks(D, token, ino, n) ==
    LET r == CountLinksCall(D, token, ino)
    IN r.err = "OK" /\ r.out.count = n

(* Read(ino) returns from U what it returns from D *)
ReadsSame(U, D, token, ino) ==
    LET r == ReadCall(U, token, ino, 1, 0)
    IN r.err = "OK" /\ r.out = ReadCall(D, token, ino, 1, 0).out

(* C3 (hard-link equivalence): for a file f with its one name (d1, a) and  *)
(* a directory d2, once Link(f, d2, b) has succeeded both Lookup(d1, a)    *)
(* and Lookup(d2, b) return f and CountLinks(f) is 2; after Unlink of      *)
(* either name the other name still resolves to f, f reads as before and   *)
(* CountLinks(f) is 1.                                                     *)
HardLinkEquivalence ==
    \A e \in directory_entries, d2 \in Inos, b \in NameSet :
        LET t == e.token
            f == e.ino
            d1 == e.parent_ino
            l == LinkCall(DB, t, f, d2, b, 0)
            u1 == UnlinkCall(l.db, t, d1, e.name, 0)
            u2 == UnlinkCall(l.db, t, d2, b, 0)
        IN (/\ IsFile(DB, t, f) /\ IsDir(DB, t, d1) /\ IsDir(DB, t, d2)
            /\ HasLinks(DB, t, f, 1)
            /\ l.err = "OK")
           => /\ ResolvesTo(l.db, t, d1, e.name, f)
              /\ ResolvesTo(l.db, t, d2, b, f)
              /\ HasLinks(l.db, t, f, 2)
              /\ u1.err = "OK"
              /\ ResolvesTo(u1.db, t, d2, b, f)
              /\ ReadsSame(u1.db, DB, t, f)
              /\ HasLinks(u1.db, t, f, 1)
              /\ u2.err = "OK"
              /\ ResolvesTo(u2.db, t, d1, e.name, f)
              /\ ReadsSame(u2.db, DB, t, f)
              /\ HasLinks(u2.db, t, f, 1)

(* A written file has two names and a link count of 2, and a file with one *)
(* name is there to be linked.                                             *)
HardLinkEquivalenceWitness ==
    /\ \E i \in inodes :
        /\ i.type = NodeTypeFile /\ i.ref_count = 2 /\ i.size > 0
        /\ Cardinality(EntriesTo(DB, i.token, i.ino)) = 2
        /\ \A e \in EntriesTo(DB, i.token, i.ino) : IsDir(DB, i.token, e.parent_ino)
    /\ last.err = "OK"

(* C4 (inode numbers are never reused): a step never decreases a           *)
(* namespace's counter, and the number a successful create returns is      *)
(* greater than every number an earlier create of the namespace returned,  *)
(* the first being VTFS_ROOT_INO + 1, whether or not the earlier inodes    *)
(* still exist.                                                            *)
InodeNumbersNeverReused ==
    [][/\ \A t \in Tokens : GetNextIno(DBn, t) >= GetNextIno(DB, t)
       /\ last'.ino # 0 =>
            /\ \A c \in created : c[1] = last'.token => c[2] < last'.ino
            /\ {c \in created : c[1] = last'.token} = {} => last'.ino = VTFS_ROOT_INO + 1
      ]_vars

(* A create has succeeded after an inode that an earlier create returned   *)
(* was destroyed.                                                          *)
InodeNumbersNeverReusedWitness ==
    /\ last.ino # 0
    /\ \E c \in Destroyed : c[1] = last.token /\ c[2] < last.ino

(* What the call CreateFile(p, n) that fails at statement f leaves behind, *)
(* as far as Lookup can tell: the name does not resolve.                   *)
AbortedNameUnbound ==
    \A t \in Tokens, p \in Inos, n \in NameSet, m \in Modes, f \in {2, 3} :
        LET r == CreateFileCall(DB, t, p, n, m, f)
        IN r.err = "INTERNAL" => LookupCall(r.db, t, p, n).err = "ENOENT"

(* C5 as stated: after a CreateFile that failed between reading its inode  *)
(* number and inserting its entry, Lookup of the name returns ENOENT and   *)
(* the number is never assigned to an inode created later.                 *)
AbortedNumberNeverAssigned ==
    /\ AbortedNameUnbound
    /\ aborted \cap created = {}

(* C5, amended: after a CreateFile that failed between reading its inode   *)
(* number and inserting its entry, Lookup of the name returns ENOENT, no   *)
(* inode has the number, the counter is what it was, and the next create   *)
(* of the namespace that succeeds is assigned that number.                 *)
AbortedNumberGoesToNextCreate ==
    /\ AbortedNameUnbound
    /\ \A t \in Tokens, p \in Inos, n \in NameSet, m \in Modes, f \in {2, 3} :
        LET r == CreateFileCall(DB, t, p, n, m, f)
            ino == GetNextIno(DB, t)
        IN r.err = "INTERNAL" =>
            /\ ~HasInode(r.db, t, ino)
            /\ GetNextIno(r.db, t) = ino
            /\ \A p2 \in Inos, n2 \in NameSet :
                /\ LET c == CreateFileCall(r.db, t, p2, n2, m, 0)
                   IN c.err = "OK" => c.out.ino = ino
                /\ LET c == CreateDirCall(r.db, t, p2, n2, m, 0)
                   IN c.err = "OK" => c.out.ino = ino
    /\ \A c \in aborted : c \in created \/ GetNextIno(DB, c[1]) = c[2]

(* A CreateFile failed after it had read its number, and a later create    *)
(* returned that number.                                                   *)
AbortedNumberGoesToNextCreateWitness ==
    /\ aborted \cap created # {}
    /\ last.ino # 0

(* C6 (root invariant): a namespace that exists has exactly one inode      *)
(* numbered VTFS_ROOT_INO, a Directory with ref_count >= 1, in every state *)
(* any sequence of calls reaches.                                          *)
RootInvariant ==
    \A t \in Tokens :
        FsGet(DB, t) # {} =>
            /\ Cardinality(InodeGet(DB, t, VTFS_ROOT_INO)) = 1
            /\ \A i \in InodeGet(DB, t, VTFS_ROOT_INO) :
                i.type = NodeTypeDir /\ i.ref_count >= 1

(* Unlink or Rmdir has destroyed every inode the creates returned, and the *)
(* root is there.                                                          *)
RootInvariantWitness ==
    /\ created # {}
    /\ Destroyed = created
    /\ \A c \in created : HasInode(DB, c[1], VTFS_ROOT_INO)

(* C7 (directory removal precondition): for an entry whose target is a     *)
(* Directory D other than the root, Rmdir of the entry succeeds exactly    *)
(* when no entry has D as its parent; when D owns an entry Rmdir returns   *)
(* ENOTEMPTY and changes nothing; when it succeeds the entry and the inode *)
(* D are gone.                                                             *)
RmdirOnlyWhenEmpty ==
    \A e \in directory_entries :
        LET r == RmdirCall(DB, e.token, e.parent_ino, e.name, 0)
            owned == EntriesOf(DB, e.token, e.ino)
        IN (IsDir(DB, e.token, e.ino) /\ e.ino # VTFS_ROOT_INO) =>
            /\ r.err = "OK" <=> owned = {}
            /\ owned # {} => r.err = "ENOTEMPTY" /\ r.db = DB
            /\ r.err = "OK" =>
                /\ ~DirExists(r.db, e.token, e.parent_ino, e.name)
                /\ ~HasInode(r.db, e.token, e.ino)

(* Rmdir has refused a directory that owns an entry. *)
RmdirOnlyWhenEmptyWitness ==
    /\ last.err = "ENOTEMPTY"
    /\ \E e \in directory_entries :
        IsDir(DB, e.token, e.ino) /\ EntriesOf(DB, e.token, e.ino) # {}

(* C9 (no dangling entries): the target of every directory entry is an     *)
(* inode of the entry's namespace, also when an Unlink runs its            *)
(* transaction on a name that another call has unlinked in the meantime.   *)
NoDanglingEntries ==
    \A e \in directory_entries : HasInode(DB, e.token, e.ino)

(* An Unlink is about to run its transaction on a name that no longer      *)
(* resolves to the inode it looked up, while that inode has another name.  *)
NoDanglingEntriesWitness ==
    \E q \in pending :
        /\ DirLookup(DB, q.token, q.parent_ino, q.name) # q.ino
        /\ EntriesTo(DB, q.token, q.ino) # {}

(* C10: every inode of kind Directory has ref_count 1 in every state the   *)
(* calls reach.                                                            *)
DirectoryRefCountOne ==
    \A i \in inodes : i.type = NodeTypeDir => i.ref_count = 1

(* A call on a directory created by CreateDir was refused with EISDIR.     *)
DirectoryRefCountOneWitness ==
    /\ last.err = "EISDIR"
    /\ \E i \in inodes : i.type = NodeTypeDir /\ i.ino # VTFS_ROOT_INO

(* The content rows of an inode *)
ContentsOf(D, token, ino) == {c \in D.file_contents : c.token = token /\ c.ino = ino}

(* C11 (size/content sync): every inode of kind File has one content row,  *)
(* whose length in bytes is the inode's size, in every state reached by    *)
(* CreateFile, Unlink and Write, two Writes of one inode running at once   *)
(* included.                                                               *)
SizeContentSync ==
    \A i \in inodes :
        i.type = NodeTypeFile =>
            /\ Cardinality(ContentsOf(DB, i.token, i.ino)) = 1
            /\ \A c \in ContentsOf(DB, i.token, i.ino) : Len(c.data) = i.size

(* A Write is about to store a blob built from content that another Write  *)
(* has replaced since.                                                     *)
SizeContentSyncWitness ==
    \E q \in pending :
        /\ IsFile(DB, q.token, q.ino)
        /\ ContentGet(DB, q.token, q.ino) # q.currentData
        /\ Len(ContentGet(DB, q.token, q.ino)) > Len(q.currentData)

(* C16 (Write zero-fill): a Write of length bytes at an offset at or       *)
(* beyond the end of the content succeeds and leaves content of            *)
(* offset + length bytes: the old bytes, zeros from the old end up to      *)
(* offset, then data[:length]; the size is offset + length, and a Read of  *)
(* offset + length bytes at 0 returns exactly that content.                *)
WriteZeroFill ==
    \A i \in inodes, d \in IOData, l \in IOLengths, o \in IOOffsets :
        LET old == ContentGet(DB, i.token, i.ino)
            r == WriteCall(DB, i.token, i.ino, d, l, o, 0)
            new == ContentGet(r.db, i.token, i.ino)
            rd == ReadCall(r.db, i.token, i.ino, o + l, 0)
        IN (i.type = NodeTypeFile /\ l <= Len(d) /\ o >= Len(old)) =>
            /\ r.err = "OK"
            /\ r.out.n = l
            /\ Len(new) = o + l
            /\ \A k \in 1..Len(old) : new[k] = old[k]
            /\ \A k \in (Len(old) + 1)..o : new[k] = 0
            /\ \A k \in 1..l : new[o + k] = d[k]
            /\ TheInode(r.db, i.token, i.ino).size = o + l
            /\ rd.err = "OK" /\ rd.out.n = o + l /\ rd.out.data = new

(* A Write past the end of an empty file has left a gap of zeros before    *)
(* its data.                                                               *)
WriteZeroFillWitness ==
    \E c \in file_contents :
        /\ Len(c.data) = MaxSize
        /\ \A k \in 1..(MaxSize - 1) : c.data[k] = 0
        /\ c.data[MaxSize] # 0

Min(a, b) == IF a < b THEN a ELSE b

Max(a, b) == IF a > b THEN a ELSE b

(* C17: Read of bufLen bytes at offset returns ENOENT for a missing inode, *)
(* EISDIR for a Directory and EINVAL for a negative offset on a file; on a *)
(* file at an offset >= 0 it succeeds with the                             *)
(* min(bufLen, max(0, size - offset)) bytes of the content from offset on, *)
(* which are none at or past the end.                                      *)
ReadExact ==
    \A t \in Tokens, ino \in Inos, b \in IOBufLens, o \in IOOffsets :
        LET r == ReadCall(DB, t, ino, b, o)
        IN IF ~HasInode(DB, t, ino) THEN r.err = "ENOENT"
           ELSE IF IsDir(DB, t, ino) THEN r.err = "EISDIR"
           ELSE IF o < 0 THEN r.err = "EINVAL"
           ELSE LET size == TheInode(DB, t, ino).size
                    count == Min(b, Max(0, size - o))
                IN /\ r.err = "OK"
                   /\ r.out.n = count
                   /\ r.out.data = SubSeq(ContentGet(DB, t, ino), o + 1, o + count)
                   /\ o >= size => r.out.n = 0

(* Two files are there to read, one of MaxSize bytes that were written in  *)
(* two Writes and one that is empty.                                       *)
ReadExactWitness ==
    /\ \E c \in file_contents : Len(c.data) = MaxSize /\ \A k \in 1..MaxSize : c.data[k] # 0
    /\ \E c \in file_contents : c.data = <<>>

(* What the call in flight q returns when its inserts run on D *)
EndCall(D, q) ==
    IF q.op = "create" THEN CreateEndCall(D, q)
    ELSE IF q.op = "link" THEN LinkEndCall(D, q)
    ELSE GetOrCreateEndCall(D, q)

(* The creates and links in flight that are ready to insert *)
Inserting == {q \in pending : (q.op = "create" /\ q.ino # 0) \/ q.op = "link"}

(* The call in flight q has lost its name to a call that has committed *)
LostName(q) == DirExists(DB, q.token, q.parent_ino, q.name)

(* C12 (name uniqueness): no two directory entries have the same           *)
(* namespace, parent and name, also when CreateFile, CreateDir and Link    *)
(* calls on one name run at once; of two such calls the one that inserts   *)
(* after the other has committed fails and changes nothing, and a call     *)
(* whose name is still free and whose inodes are there succeeds.           *)
NameUniqueness ==
    /\ \A e1 \in directory_entries, e2 \in directory_entries :
        (e1.token = e2.token /\ e1.parent_ino = e2.parent_ino /\ e1.name = e2.name)
            => e1 = e2
    /\ \A q \in Inserting :
        LET r == EndCall(DB, q)
        IN /\ LostName(q) => r.err # "OK" /\ r.db = DB
           /\ (/\ ~LostName(q)
               /\ HasInode(DB, q.token, q.parent_ino)
               /\ IF q.op = "create"
                  THEN q.ino = GetNextIno(DB, q.token) /\ ~HasInode(DB, q.token, q.ino)
                  ELSE HasInode(DB, q.token, q.ino))
              => r.err = "OK" /\ DirLookup(r.db, q.token, q.parent_ino, q.name) = q.ino

(* A create is about to insert an entry for a name that another call has   *)
(* bound since the create checked it.                                      *)
NameUniquenessWitness ==
    \E q \in Inserting : q.op = "create" /\ LostName(q)

(* C13: a CreateFile, CreateDir or Link on a name of a directory that      *)
(* passed the existence check and then loses the name to a racing call     *)
(* returns EEXIST, the error of the check, and not the internal error.     *)
LoserGetsEEXIST ==
    \A q \in Inserting :
        (LostName(q) /\ IsDir(DB, q.token, q.parent_ino))
            => EndCall(DB, q).err = "EEXIST"

(* C14: GetOrCreate leaves a namespace that exists as it is, and when two  *)
(* GetRoot or Init calls run at once on a token that has no namespace, the *)
(* one that inserts second returns no error; exactly one namespace row and *)
(* one root inode exist afterwards.                                        *)
GetOrCreateNoError ==
    /\ \A t \in Tokens :
        FsGet(DB, t) # {} => GetOrCreate(DB, t, 0) = [db |-> DB, err |-> "nil", fs |-> FsGet(DB, t)]
    /\ \A q \in pending :
        q.op \in {"GetRoot", "Init"} =>
            LET r == GetOrCreateEndCall(DB, q)
            IN /\ r.err = "OK"
               /\ Cardinality(FsGet(r.db, q.token)) = 1
               /\ Cardinality(InodeGet(r.db, q.token, VTFS_ROOT_INO)) = 1

(* C15: Init succeeds only on a token that has no namespace, and then      *)
(* creates the namespace with counter 1001 and the root inode 1000, a      *)
(* Directory with ref_count 1; on a token whose namespace exists, made by  *)
(* Init or by GetRoot, Init returns EEXIST and changes nothing.            *)
InitOnlyOnce ==
    \A t \in Tokens :
        LET r == InitCall(DB, t, 0)
        IN IF FsGet(DB, t) # {}
           THEN r.err = "EEXIST" /\ r.db = DB
           ELSE /\ r.err = "OK"
                /\ r.db.filesystems = filesystems \cup
                    {[token |-> t, root_ino |-> VTFS_ROOT_INO,
                      next_ino |-> VTFS_ROOT_INO + 1]}
                /\ r.db.inodes = inodes \cup
                    {[ino |-> VTFS_ROOT_INO, token |-> t, type |-> NodeTypeDir,
                      mode |-> VTFS_ROOT_MODE, size |-> 0, ref_count |-> 1]}
                /\ r.db.directory_entries = directory_entries
                /\ r.db.file_contents = file_contents

(* Init has been refused on a namespace that exists and has no entry. *)
InitOnlyOnceWitness ==
    /\ last.err = "EEXIST"
    /\ directory_entries = {}
    /\ created = {}
    /\ \E t \in Tokens : last.token = t /\ FsGet(DB, t) # {}

(* What Unlink of the entry (parentIno, name) -> ino of a RegularFile has  *)
(* to leave behind: the entries without that one, the reference count one  *)
(* lower, and the inode and its content gone exactly when the count is 0.  *)
UnlinkedExactly(r, token, parentIno, name, ino) ==
    LET inode == TheInode(DB, token, ino)
        lower == [inode EXCEPT !.ref_count = @ - 1]
    IN /\ r.err = "OK"
       /\ r.db.filesystems = filesystems
       /\ r.db.directory_entries = directory_entries \
            {[token |-> token, parent_ino |-> parentIno, name |-> name, ino |-> ino]}
       /\ IF inode.ref_count - 1 = 0
          THEN /\ r.db.inodes = inodes \ {inode}
               /\ r.db.file_contents = file_contents \ ContentsOf(DB, token, ino)
          ELSE /\ r.db.inodes = (inodes \ {inode}) \cup {lower}
               /\ r.db.file_contents = file_contents

(* C18: Unlink of an entry whose target is a RegularFile deletes exactly   *)
(* that entry and lowers the target's ref_count by one, and destroys the   *)
(* inode and its content in the same call exactly when the count reaches   *)
(* 0; it returns ENOENT when the entry is absent and EPERM when the target *)
(* is a Directory, and then changes nothing.                               *)
UnlinkExact ==
    \A t \in Tokens, p \in Inos, n \in NameSet :
        LET ino == DirLookup(DB, t, p, n)
            r == UnlinkCall(DB, t, p, n, 0)
        IN /\ ino = 0 => r.err = "ENOENT" /\ r.db = DB
           /\ (ino # 0 /\ IsDir(DB, t, ino)) => r.err = "EPERM" /\ r.db = DB
           /\ (ino # 0 /\ IsFile(DB, t, ino)) => UnlinkedExactly(r, t, p, n, ino)

(* What a create of kind type under the free name (parentIno, name) has to *)
(* leave behind: one more inode, numbered with the counter, of that kind   *)
(* with ref_count 1 and size 0; one more entry, for the name and to that   *)
(* inode; an empty content when the kind is File and none otherwise; the   *)
(* counter one higher.                                                     *)
CreatedExactly(r, token, parentIno, name, type) ==
    LET newIno == GetNextIno(DB, token)
        added == r.db.inodes \ inodes
    IN /\ r.err = "OK"
       /\ r.out.ino = newIno
       /\ inodes \subseteq r.db.inodes
       /\ Cardinality(added) = 1
       /\ \A i \in added :
            /\ i.token = token /\ i.ino = newIno /\ i.type = type
            /\ i.ref_count = 1 /\ i.size = 0
       /\ ~HasInode(DB, token, newIno)
       /\ r.db.directory_entries = directory_entries \cup
            {[token |-> token, parent_ino |-> parentIno, name |-> name, ino |-> newIno]}
       /\ r.db.file_contents =
            IF type = NodeTypeFile
            THEN file_contents \cup {[token |-> token, ino |-> newIno, data |-> <<>>]}
            ELSE file_contents
       /\ ContentsOf(DB, token, newIno) = {}
       /\ GetNextIno(r.db, token) = newIno + 1
       /\ {f \in r.db.filesystems : f.token # token} = {f \in filesystems : f.token # token}
       /\ Cardinality(r.db.filesystems) = Cardinality(filesystems)

(* The result of CreateFile or CreateDir, by the kind they create *)
CreateOfKind(type, token, parentIno, name, mode) ==
    IF type = NodeTypeFile THEN CreateFileCall(DB, token, parentIno, name, mode, 0)
    ELSE CreateDirCall(DB, token, parentIno, name, mode, 0)

(* C19: CreateFile on a parent that is a Directory and a name that is free *)
(* creates, in one step, an inode of kind File with ref_count 1 and size 0 *)
(* numbered with the namespace counter, one entry (parent, name) to it and *)
(* an empty content, and raises the counter by 1; CreateDir does the same  *)
(* with kind Directory and no content.  Both return ENOTDIR when the       *)
(* parent is not a Directory and EEXIST when the name is bound, and then   *)
(* change nothing.                                                         *)
CreateExact ==
    \A t \in Tokens, p \in Inos, n \in NameSet, m \in Modes,
       k \in {NodeTypeFile, NodeTypeDir} :
        LET r == CreateOfKind(k, t, p, n, m)
        IN /\ ~IsDir(DB, t, p) => r.err = "ENOTDIR" /\ r.db = DB
           /\ (IsDir(DB, t, p) /\ DirExists(DB, t, p, n)) => r.err = "EEXIST" /\ r.db = DB
           /\ (IsDir(DB, t, p) /\ ~DirExists(DB, t, p, n)) => CreatedExactly(r, t, p, n, k)

(* CreateDir has just made a directory under a directory that CreateDir    *)
(* made, with the number the counter held.                                 *)
CreateExactWitness ==
    /\ last.err = "OK"
    /\ last.ino = VTFS_ROOT_INO + 2
    /\ IsDir(DB, last.token, last.ino)
    /\ GetNextIno(DB, last.token) = last.ino + 1
    /\ \E e \in directory_entries :
        e.ino = last.ino /\ e.parent_ino = VTFS_ROOT_INO + 1 /\ IsDir(DB, e.token, e.parent_ino)

(* C20: Rmdir returns ENOENT when the entry is absent, else ENOTDIR when   *)
(* the target is not a Directory, else EPERM when the target is the root,  *)
(* else ENOTEMPTY when the target owns an entry; with each of these errors *)
(* the tables are left as they were.                                       *)
RmdirErrorOrder ==
    \A t \in Tokens, p \in Inos, n \in NameSet :
        LET ino == DirLookup(DB, t, p, n)
            r == RmdirCall(DB, t, p, n, 0)
        IN /\ r.err = "ENOENT" <=> ino = 0
           /\ r.err = "ENOTDIR" <=> (ino # 0 /\ ~IsDir(DB, t, ino))
           /\ r.err = "EPERM" <=> (ino # 0 /\ IsDir(DB, t, ino) /\ ino = VTFS_ROOT_INO)
           /\ r.err = "ENOTEMPTY" <=>
                (/\ ino # 0 /\ IsDir(DB, t, ino) /\ ino # VTFS_ROOT_INO
                 /\ EntriesOf(DB, t, ino) # {})
           /\ r.err \in {"ENOENT", "ENOTDIR", "EPERM", "ENOTEMPTY"} => r.db = DB

(* Rmdir has returned ENOTDIR (no create is enabled once MaxEntries        *)
(* entries exist) for a file, where a file that owns an entry exists: the  *)
(* kind is checked before the emptiness.                                   *)
RmdirErrorOrderWitness ==
    /\ last.err = "ENOTDIR"
    /\ Cardinality(directory_entries) >= MaxEntries
    /\ \E e \in directory_entries :
        IsFile(DB, e.token, e.ino) /\ EntriesOf(DB, e.token, e.ino) # {}

(* What Link of the file targetIno under the free name (parentIno, name)   *)
(* leaves behind when it succeeds: one more entry, for that name and to    *)
(* the target, and the target's ref_count one higher.                      *)
LinkedExactly(r, token, targetIno, parentIno, name) ==
    LET inode == TheInode(DB, token, targetIno)
    IN /\ r.err = "OK"
       /\ r.db.directory_entries = directory_entries \cup
            {[token |-> token, parent_ino |-> parentIno, name |-> name, ino |-> targetIno]}
       /\ r.db.inodes = (inodes \ {inode}) \cup
            {[inode EXCEPT !.ref_count = inode.ref_count + 1]}
       /\ r.db.filesystems = filesystems
       /\ r.db.file_contents = file_contents

(* The refusals of Link, in the order of the checks *)
LinkRefusals(r, token, targetIno, parentIno, name) ==
    /\ ~HasInode(DB, token, targetIno) => r.err = "ENOENT" /\ r.db = DB
    /\ IsDir(DB, token, targetIno) => r.err = "EISDIR" /\ r.db = DB
    /\ (IsFile(DB, token, targetIno) /\ DirExists(DB, token, parentIno, name))
        => r.err = "EEXIST" /\ r.db = DB

(* C21 as stated: Link returns ENOENT when the target inode is missing,    *)
(* EISDIR when it is a Directory and EEXIST when the name is bound, and    *)
(* changes nothing; in every other case it creates the entry and raises    *)
(* the target's ref_count by 1.                                            *)
LinkExact ==
    \A t \in Tokens, target \in Inos, p \in Inos, n \in NameSet :
        LET r == LinkCall(DB, t, target, p, n, 0)
        IN /\ LinkRefusals(r, t, target, p, n)
           /\ (IsFile(DB, t, target) /\ ~DirExists(DB, t, p, n))
                => LinkedExactly(r, t, target, p, n)

(* C21 (amended): as above, but the entry is created and the ref_count     *)
(* raised only when the inode parentIno exists; when it does not, the      *)
(* store refuses the entry, Link returns the internal error and changes    *)
(* nothing.                                                                *)
LinkExactUnderParent ==
    \A t \in Tokens, target \in Inos, p \in Inos, n \in NameSet :
        LET r == LinkCall(DB, t, target, p, n, 0)
        IN /\ LinkRefusals(r, t, target, p, n)
           /\ (IsFile(DB, t, target) /\ ~DirExists(DB, t, p, n) /\ HasInode(DB, t, p))
                => LinkedExactly(r, t, target, p, n)
           /\ (IsFile(DB, t, target) /\ ~DirExists(DB, t, p, n) /\ ~HasInode(DB, t, p))
                => r.err = "INTERNAL" /\ r.db = DB

(* Link has been refused by the store (without faults no other call        *)
(* returns the internal error), and a file is linked twice.                *)
LinkExactUnderParentWitness ==
    /\ last.err = "INTERNAL"
    /\ \E i \in inodes : i.type = NodeTypeFile /\ i.ref_count = 2

(* C22: Write returns EINVAL when offset < 0 or length > |data|, ENOENT    *)
(* when the inode is missing and EISDIR when it is a Directory (the        *)
(* arguments are checked first, then the inode), and with each of these    *)
(* errors the content and the size are as before; otherwise it returns     *)
(* length as the number of bytes written.                                  *)
WriteErrors ==
    \A t \in Tokens, i \in Inos, d \in IOData, l \in IOLengths, o \in IOOffsets :
        LET r == WriteCall(DB, t, i, d, l, o, 0)
            invalid == o < 0 \/ l > Len(d)
        IN /\ r.err = "EINVAL" <=> invalid
           /\ r.err = "ENOENT" <=> (~invalid /\ ~HasInode(DB, t, i))
           /\ r.err = "EISDIR" <=> (~invalid /\ IsDir(DB, t, i))
           /\ (invalid \/ ~HasInode(DB, t, i) \/ IsDir(DB, t, i)) =>
                /\ r.err \in {"EINVAL", "ENOENT", "EISDIR"}
                /\ r.out.n = 0
                /\ r.db = DB
           /\ (~invalid /\ IsFile(DB, t, i)) => r.err = "OK" /\ r.out.n = l

(* Write has been refused for its arguments while a file with content      *)
(* exists, and a directory and a free inode number exist.                  *)
WriteErrorsWitness ==
    /\ last.err = "EINVAL"
    /\ \E i \in inodes : i.type = NodeTypeFile /\ i.size > 0
    /\ \E i \in inodes : i.type = NodeTypeDir
    /\ \E t \in Tokens, i \in Inos : FsGet(DB, t) # {} /\ ~HasInode(DB, t, i)

(* C23: Lookup returns ENOTDIR when the parent is not a Directory inode,   *)
(* ENOENT when the parent is a Directory without an entry of that name,    *)
(* and otherwise the metadata of the entry's target: its number, kind and  *)
(* size, with parent_ino the parent that was given.  It changes nothing.   *)
LookupResult ==
    \A t \in Tokens, p \in Inos, n \in NameSet :
        LET r == LookupCall(DB, t, p, n)
            bound == {e \in directory_entries :
                        e.token = t /\ e.parent_ino = p /\ e.name = n}
        IN /\ r.db = DB
           /\ ~IsDir(DB, t, p) => r.err = "ENOTDIR"
           /\ (IsDir(DB, t, p) /\ bound = {}) => r.err = "ENOENT"
           /\ IsDir(DB, t, p) =>
                \A e \in bound : \E i \in inodes :
                    /\ i.token = t /\ i.ino = e.ino
                    /\ r.err = "OK"
                    /\ r.out.ino = e.ino
                    /\ r.out.type = i.type
                    /\ r.out.size = i.size
                    /\ r.out.parent_ino = p

(* A directory other than the root holds a file with content, a file owns  *)
(* an entry, and a name of the root is free: Lookup has each of its three  *)
(* results to give.                                                        *)
LookupResultWitness ==
    /\ \E e \in directory_entries, i \in inodes :
        /\ e.parent_ino # VTFS_ROOT_INO /\ IsDir(DB, e.token, e.parent_ino)
        /\ i.token = e.token /\ i.ino = e.ino /\ i.type = NodeTypeFile /\ i.size > 0
        /\ LookupCall(DB, e.token, e.parent_ino, e.name).err = "OK"
    /\ \E t \in Tokens, p \in Inos, n \in NameSet :
        LookupCall(DB, t, p, n).err = "ENOTDIR"
    /\ \E t \in Tokens, n \in NameSet :
        LookupCall(DB, t, VTFS_ROOT_INO, n).err = "ENOENT"

(* The names a caller reads from the directory dirIno when it starts with  *)
(* the cursor at offset and calls IterateDir with the cursor each call     *)
(* hands back, until a call fails.                                         *)
RECURSIVE Iterated(_, _, _)
Iterated(token, dirIno, offset) ==
    LET r == IterateDirCall(DB, token, dirIno, offset)
    IN IF r.err # "OK" THEN <<>>
       ELSE <<r.out.name>> \o Iterated(token, dirIno, r.out.offset)

(* C24 (directory iteration): on a directory, IterateDir at offset k       *)
(* returns the k-th entry (from 0) in ascending order of name and a cursor *)
(* of k + 1; it returns ENOENT, with the cursor as it was, exactly when k  *)
(* is at least the number of entries, so that iterating from 0 visits      *)
(* every entry once and then ends; on a non-directory it returns ENOTDIR.  *)
IterateInOrder ==
    \A t \in Tokens, d \in Inos, k \in 0..(Len(Names) + 1) :
        LET r == IterateDirCall(DB, t, d, k)
            ents == EntriesOf(DB, t, d)
            walk == Iterated(t, d, 0)
        IN /\ r.db = DB
           /\ ~IsDir(DB, t, d) => r.err = "ENOTDIR"
           /\ IsDir(DB, t, d) =>
                /\ r.err = "ENOENT" <=> k >= Cardinality(ents)
                /\ r.err = "ENOENT" => r.out.offset = k
                /\ k < Cardinality(ents) =>
                    /\ r.err = "OK"
                    /\ r.out.offset = k + 1
                    /\ \E e \in ents :
                        /\ e.name = r.out.name /\ e.ino = r.out.ino
                        /\ Cardinality({x \in ents :
                                NameRank(x.name) < NameRank(e.name)}) = k
                /\ Len(walk) = Cardinality(ents)
                /\ {walk[j] : j \in 1..Len(walk)} = {e.name : e \in ents}
                /\ \A j \in 1..Len(walk) : \A j2 \in 1..Len(walk) :
                    j < j2 => NameRank(walk[j]) < NameRank(walk[j2])

(* A directory holds two entries, which IterateDir returns at offsets 0    *)
(* and 1 before it ends at offset 2, and a file exists.                    *)
IterateInOrderWitness ==
    /\ \E t \in Tokens, d \in Inos :
        /\ IsDir(DB, t, d)
        /\ Cardinality(EntriesOf(DB, t, d)) = 2
        /\ Len(Iterated(t, d, 0)) = 2
        /\ IterateDirCall(DB, t, d, 2).err = "ENOENT"
    /\ \E t \in Tokens, d \in Inos : IterateDirCall(DB, t, d, 0).err = "ENOTDIR"

(* C25 (wire error codes): the code handed to the response writer for a    *)
(* failed call is negative and is the negated errno of the error (EPERM    *)
(* -1, ENOENT -2, EEXIST -17, ENOTDIR -20, EISDIR -21, EINVAL -22,         *)
(* ENOTEMPTY -39), a failure that is none of these gives -12, and the code *)
(* is 0 exactly when the call succeeded.                                   *)
WireCodesNegated ==
    LET code == ResponseCode(last.err)
    IN /\ code = 0 <=> last.err = "OK"
       /\ last.err # "OK" => code < 0
       /\ last.err = "EPERM" => code = -1
       /\ last.err = "ENOENT" => code = -2
       /\ last.err = "EEXIST" => code = -17
       /\ last.err = "ENOTDIR" => code = -20
       /\ last.err = "EISDIR" => code = -21
       /\ last.err = "EINVAL" => code = -22
       /\ last.err = "ENOTEMPTY" => code = -39
       /\ last.err \notin (ServiceErrors \cup {"OK"}) => code = -12

(* The blob the Write in flight q has built from the content it read *)
BlobOf(q) == WriteBlob(q.currentData, q.data, q.length, q.offset)

(* C26 (concurrent writers): when a Write of a file commits after another  *)
(* Write of the same file that ran while it was in flight, the content is  *)
(* then the whole blob of the Write that commits last, built from the      *)
(* content that Write read and with nothing of the other Write's range     *)
(* merged in, and the inode's size is the length of that blob.             *)
LastWriterWins ==
    \A q \in pending :
        IsFile(DB, q.token, q.ino) =>
            LET r == WriteEndCall(DB, q)
            IN /\ r.err = "OK"
               /\ r.out.n = q.length
               /\ ContentsOf(r.db, q.token, q.ino) =
                    {[token |-> q.token, ino |-> q.ino, data |-> BlobOf(q)]}
               /\ TheInode(r.db, q.token, q.ino).size = Len(BlobOf(q))

(* A Write is about to store its blob over the content another Write has   *)
(* committed since it read, and a merge of the two would differ from it.   *)
LastWriterWinsWitness ==
    \E q \in pending :
        /\ IsFile(DB, q.token, q.ino)
        /\ ContentGet(DB, q.token, q.ino) # q.currentData
        /\ WriteBlob(ContentGet(DB, q.token, q.ino), q.data, q.length, q.offset) # BlobOf(q)
        /\ Len(ContentGet(DB, q.token, q.ino)) > Len(BlobOf(q))

(* What a Link or an Unlink that succeeds adds to the target's ref_count *)
Delta(q) == IF q.op = "link" THEN 1 ELSE -1

RefCountIn(D, token, ino) == TheInode(D, token, ino).ref_count

(* C27 (no lost ref-count updates): when Links under distinct names and    *)
(* Unlinks of distinct names of one file are in flight together and        *)
(* succeed, each adds 1 or takes 1 from the ref_count the store holds when *)
(* it commits, whatever it read before, so that after n Links and m        *)
(* Unlinks the ref_count is the previous one + n - m.                      *)
NoLostRefCount ==
    \A q1 \in pending :
        LET r1 == CountEndCall(DB, q1)
        IN /\ (HasInode(DB, q1.token, q1.ino) /\ r1.err = "OK"
               /\ HasInode(r1.db, q1.token, q1.ino))
                => RefCountIn(r1.db, q1.token, q1.ino)
                     = RefCountIn(DB, q1.token, q1.ino) + Delta(q1)
           /\ \A q2 \in pending \ {q1} :
                LET r2 == CountEndCall(r1.db, q2)
                IN (/\ q2.token = q1.token /\ q2.ino = q1.ino
                    /\ HasInode(DB, q1.token, q1.ino)
                    /\ r1.err = "OK" /\ r2.err = "OK"
                    /\ HasInode(r2.db, q1.token, q1.ino))
                    => RefCountIn(r2.db, q1.token, q1.ino)
                         = RefCountIn(DB, q1.token, q1.ino) + Delta(q1) + Delta(q2)

(* A Link and an Unlink of one file are in flight, the ref_count has       *)
(* changed since the Link read it, and both are about to succeed, in       *)
(* either order.                                                           *)
NoLostRefCountWitness ==
    \E q1 \in pending, q2 \in pending :
        /\ q1.op = "link" /\ q2.op = "unlink"
        /\ q1.token = q2.token /\ q1.ino = q2.ino
        /\ HasInode(DB, q1.token, q1.ino)
        /\ q1.seen # RefCountIn(DB, q1.token, q1.ino)
        /\ DirLookup(DB, q2.token, q2.parent_ino, q2.name) = q2.ino
        /\ CountEndCall(DB, q1).err = "OK"
        /\ CountEndCall(CountEndCall(DB, q1).db, q2).err = "OK"
        /\ CountEndCall(DB, q2).err = "OK"
        /\ CountEndCall(CountEndCall(DB, q2).db, q1).err = "OK"

(* C28: when an Unlink of a name of a file that has other names commits    *)
(* after another Unlink of the same name, which ran while it was in        *)
(* flight, the ref_count is lowered once in total: the second commit       *)
(* leaves the inode, its content, its other names (in directories) and its *)
(* ref_count, the number of its entries, as they are.                      *)
UnlinkTwiceCountsOnce ==
    \A q \in pending :
        (/\ DirLookup(DB, q.token, q.parent_ino, q.name) = 0
         /\ IsDir(DB, q.token, q.parent_ino)
         /\ IsFile(DB, q.token, q.ino)
         /\ EntriesTo(DB, q.token, q.ino) # {}
         /\ \A e \in EntriesTo(DB, q.token, q.ino) : IsDir(DB, e.token, e.parent_ino)
         /\ RefCountIn(DB, q.token, q.ino) = Cardinality(EntriesTo(DB, q.token, q.ino)))
        => LET r == UnlinkEndCall(DB, q)
           IN /\ HasInode(r.db, q.token, q.ino)
              /\ RefCountIn(r.db, q.token, q.ino) = RefCountIn(DB, q.token, q.ino)
              /\ RefCountIn(r.db, q.token, q.ino)
                    = Cardinality(EntriesTo(r.db, q.token, q.ino))
              /\ r.db.directory_entries = directory_entries
              /\ r.db.file_contents = file_contents

(* C29: when a CreateFile, CreateDir or Link has inserted an entry under   *)
(* the directory D while an Rmdir of D was in flight, the Rmdir fails with *)
(* ENOTEMPTY and changes nothing, so that D is never removed from under an *)
(* inode whose ref_count counts an entry of D.                             *)
RmdirLosesToInsert ==
    \A q \in pending :
        (/\ DirLookup(DB, q.token, q.parent_ino, q.name) = q.ino
         /\ IsDir(DB, q.token, q.ino)
         /\ EntriesOf(DB, q.token, q.ino) # {})
        => LET r == RmdirEndCall(DB, q)
           IN /\ r.err = "ENOTEMPTY"
              /\ r.db = DB
              /\ \A e \in EntriesOf(DB, q.token, q.ino) :
                    /\ HasInode(r.db, e.token, e.ino)
                    /\ RefCountIn(r.db, e.token, e.ino)
                        = Cardinality(EntriesTo(r.db, e.token, e.ino))

(* C30: a CreateFile or CreateDir that has read the counter, whose parent  *)
(* is a directory and whose name is free, succeeds whatever creates on     *)
(* other names have committed since it read the counter, with a number no  *)
(* other inode of the namespace has.                                       *)
RacingCreatesBothSucceed ==
    \A q \in pending :
        (/\ q.op = "create" /\ q.ino # 0
         /\ IsDir(DB, q.token, q.parent_ino)
         /\ ~DirExists(DB, q.token, q.parent_ino, q.name))
        => LET r == CreateEndCall(DB, q)
           IN /\ r.err = "OK"
              /\ ~HasInode(DB, q.token, r.out.ino)
              /\ <<q.token, r.out.ino>> \notin created

(* C31: of two Init calls on a token that had no namespace, the one whose  *)
(* inserts run after the other has committed does not succeed and returns  *)
(* EEXIST, leaving the store as it is.                                     *)
InitLoserGetsEEXIST ==
    \A q \in pending :
        (q.op = "Init" /\ FsGet(DB, q.token) # {})
            => LET r == GetOrCreateEndCall(DB, q)
               IN r.err = "EEXIST" /\ r.db = DB

(* C32: the parent_ino of every directory entry is an inode that exists    *)
(* and is a Directory; CreateFile, CreateDir and Link never bind a name    *)
(* under a RegularFile or under a missing inode.                           *)
ParentsAreDirectories ==
    \A e \in directory_entries : IsDir(DB, e.token, e.parent_ino)

(* The frame of a call that removed the name (parentIno, name): every      *)
(* other entry is still there, and every inode other than the one the name *)
(* resolved to is there as it was.                                         *)
OnlyNamedRemoved(r, token, parentIno, name) ==
    LET ino == DirLookup(DB, token, parentIno, name)
    IN /\ \A e \in directory_entries :
            ~(e.token = token /\ e.parent_ino = parentIno /\ e.name = name)
                => e \in r.db.directory_entries
       /\ \A i \in inodes :
            ~(i.token = token /\ i.ino = ino) => i \in r.db.inodes

(* C33: a successful Unlink or Rmdir of (parent, name) keeps every other   *)
(* directory entry, and neither deletes nor changes the ref_count of an    *)
(* inode other than its target.                                            *)
DestroyRemovesOnlyNamed ==
    \A t \in Tokens, p \in Inos, n \in NameSet :
        LET u == UnlinkCall(DB, t, p, n, 0)
            d == RmdirCall(DB, t, p, n, 0)
        IN /\ u.err = "OK" => OnlyNamedRemoved(u, t, p, n)
           /\ d.err = "OK" => OnlyNamedRemoved(d, t, p, n)

(* A call whose commit failed (r) against the same call committed (ok):    *)
(* it reports success only if the store holds what the committed call      *)
(* leaves.                                                                 *)
SuccessIsPersisted(r, ok) == r.err = "OK" => r.db = ok.db

(* C34: a mutating call reports success only if its transaction committed: *)
(* when Commit fails the call does not return success for effects that are *)
(* not in the store, and an inode a create has just returned exists.       *)
SuccessOnlyIfCommitted ==
    /\ (last.err = "OK" /\ last.ino # 0) => HasInode(DB, last.token, last.ino)
    /\ \A t \in Tokens :
        /\ SuccessIsPersisted(InitCall(DB, t, CommitFault), InitCall(DB, t, 0))
        /\ SuccessIsPersisted(GetRootCall(DB, t, CommitFault), GetRootCall(DB, t, 0))
        /\ \A p \in Inos, n \in NameSet :
            /\ \A m \in Modes :
                /\ SuccessIsPersisted(CreateFileCall(DB, t, p, n, m, CommitFault),
                                      CreateFileCall(DB, t, p, n, m, 0))
                /\ SuccessIsPersisted(CreateDirCall(DB, t, p, n, m, CommitFault),
                                      CreateDirCall(DB, t, p, n, m, 0))
            /\ SuccessIsPersisted(UnlinkCall(DB, t, p, n, CommitFault),
                                  UnlinkCall(DB, t, p, n, 0))
            /\ SuccessIsPersisted(RmdirCall(DB, t, p, n, CommitFault),
                                  RmdirCall(DB, t, p, n, 0))
            /\ \A i \in Inos :
                SuccessIsPersisted(LinkCall(DB, t, i, p, n, CommitFault),
                                   LinkCall(DB, t, i, p, n, 0))
        /\ \A i \in Inos, d \in DataBufs, l \in Lengths, o \in Offsets :
            SuccessIsPersisted(WriteCall(DB, t, i, d, l, o, CommitFault),
                               WriteCall(DB, t, i, d, l, o, 0))

(* C35: a successful Write of length bytes at offset leaves every byte the *)
(* content had outside [offset, offset+length) as it was and never shrinks *)
(* the file: the content and the size are max(old length, offset+length)   *)
(* bytes long, also when length is 0.                                      *)
WriteKeepsRest ==
    \A i \in inodes, d \in IOData, l \in WLengths, o \in IOOffsets :
        LET old == ContentGet(DB, i.token, i.ino)
            r == WriteCall(DB, i.token, i.ino, d, l, o, 0)
            new == ContentGet(r.db, i.token, i.ino)
        IN r.err = "OK" =>
            /\ Len(new) = Max(Len(old), o + l)
            /\ TheInode(r.db, i.token, i.ino).size = Max(Len(old), o + l)
            /\ \A k \in 1..Len(old) : (k <= o \/ k > o + l) => new[k] = old[k]

(* A Write of length 0 past the end has grown a file to zeros only (every  *)
(* byte of data is non-zero), and a Write inside a file of MaxSize bytes   *)
(* has left its first and last byte.                                       *)
WriteKeepsRestWitness ==
    /\ last.err = "OK"
    /\ \E c \in file_contents :
        Len(c.data) > 0 /\ \A k \in 1..Len(c.data) : c.data[k] = 0
    /\ \E c \in file_contents :
        Len(c.data) = MaxSize /\ c.data[1] = 0 /\ c.data[2] # 0 /\ c.data[MaxSize] = 0

(* The rows of D that belong to the namespaces of T *)
RowsOf(D, T) ==
    [filesystems |-> {f \in D.filesystems : f.token \in T},
     inodes |-> {i \in D.inodes : i.token \in T},
     directory_entries |-> {e \in D.directory_entries : e.token \in T},
     file_contents |-> {c \in D.file_contents : c.token \in T}]

(* A call with token t returned r; r0 is what the same call returns on a   *)
(* store that holds the namespace of t alone.  The call has read nothing   *)
(* of another namespace when it answers as r0 and leaves the namespace of  *)
(* t as r0 does, and has changed nothing of another namespace.             *)
Isolated(t, r, r0) ==
    /\ r.err = r0.err
    /\ r.out = r0.out
    /\ RowsOf(r.db, {t}) = r0.db
    /\ RowsOf(r.db, BothTokens \ {t}) = RowsOf(DB, BothTokens \ {t})

(* C36 (namespace isolation): a call with token A neither reads nor        *)
(* changes the counter, the inodes, the entries or the contents of the     *)
(* namespace of another token B, also when both hold the same inode        *)
(* numbers and names.                                                      *)
NamespaceIsolation ==
    \A t \in BothTokens :
        LET own == RowsOf(DB, {t})
        IN /\ Isolated(t, InitCall(DB, t, 0), InitCall(own, t, 0))
           /\ Isolated(t, GetRootCall(DB, t, 0), GetRootCall(own, t, 0))
           /\ \A p \in Inos, n \in NameSet :
                /\ Isolated(t, LookupCall(DB, t, p, n), LookupCall(own, t, p, n))
                /\ Isolated(t, UnlinkCall(DB, t, p, n, 0), UnlinkCall(own, t, p, n, 0))
                /\ Isolated(t, RmdirCall(DB, t, p, n, 0), RmdirCall(own, t, p, n, 0))
                /\ \A m \in Modes :
                    /\ Isolated(t, CreateFileCall(DB, t, p, n, m, 0),
                                   CreateFileCall(own, t, p, n, m, 0))
                    /\ Isolated(t, CreateDirCall(DB, t, p, n, m, 0),
                                   CreateDirCall(own, t, p, n, m, 0))
                /\ \A i \in Inos :
                    Isolated(t, LinkCall(DB, t, i, p, n, 0), LinkCall(own, t, i, p, n, 0))
           /\ \A i \in Inos :
                /\ Isolated(t, CountLinksCall(DB, t, i), CountLinksCall(own, t, i))
                /\ \A o \in Cursors :
                    Isolated(t, IterateDirCall(DB, t, i, o), IterateDirCall(own, t, i, o))
                /\ \A o \in Offsets :
                    Isolated(t, ReadCall(DB, t, i, 1, o), ReadCall(own, t, i, 1, o))
                /\ \A d \in DataBufs, l \in Lengths, o \in Offsets :
                    Isolated(t, WriteCall(DB, t, i, d, l, o, 0),
                                WriteCall(own, t, i, d, l, o, 0))

(* Two namespaces hold the inode number 1001 under the same name of their  *)
(* roots: a file with content in one, a directory in the other.            *)
NamespaceIsolationWitness ==
    /\ last.err = "OK"
    /\ \E a \in BothTokens, b \in BothTokens, n \in NameSet :
        /\ a # b
        /\ DirLookup(DB, a, VTFS_ROOT_INO, n) = VTFS_ROOT_INO + 1
        /\ DirLookup(DB, b, VTFS_ROOT_INO, n) = VTFS_ROOT_INO + 1
        /\ IsFile(DB, a, VTFS_ROOT_INO + 1)
        /\ ContentGet(DB, a, VTFS_ROOT_INO + 1) # <<>>
        /\ IsDir(DB, b, VTFS_ROOT_INO + 1)

(* The store after the namespace of token has been created in D: one more  *)
(* row of filesystems, with the counter at the first number after the      *)
(* root, and the root inode.                                               *)
WithNamespace(D, token) ==
    [D EXCEPT
        !.filesystems = @ \cup {[token |-> token, root_ino |-> VTFS_ROOT_INO,
                                 next_ino |-> VTFS_ROOT_INO + 1]},
        !.inodes = @ \cup
            {NewInode(token, VTFS_ROOT_INO, NodeTypeDir, VTFS_ROOT_MODE)}]

(* C37: Lookup, IterateDir, Read and CountLinks leave the counters, the    *)
(* inodes, the entries and the contents as they were, whether they succeed *)
(* or fail; GetRoot changes the store only when the namespace is missing,  *)
(* and then adds the namespace and its root and nothing else.              *)
QueriesReadOnly ==
    \A t \in Tokens :
        /\ \A p \in Inos, n \in NameSet : LookupCall(DB, t, p, n).db = DB
        /\ \A d \in Inos, o \in Cursors : IterateDirCall(DB, t, d, o).db = DB
        /\ \A i \in Inos, b \in IOBufLens, o \in Offsets : ReadCall(DB, t, i, b, o).db = DB
        /\ \A i \in Inos : CountLinksCall(DB, t, i).db = DB
        /\ GetRootCall(DB, t, 0).db =
                IF FsGet(DB, t) # {} THEN DB ELSE WithNamespace(DB, t)

(* The namespace has handed out every number, and on this store Lookup,    *)
(* IterateDir, Read and CountLinks each succeed for one input and fail for *)
(* another, and GetRoot succeeds.                                          *)
QueriesReadOnlyWitness ==
    \E t \in Tokens :
        /\ GetNextIno(DB, t) > VTFS_ROOT_INO + MaxCreates
        /\ GetRootCall(DB, t, 0).err = "OK"
        /\ \E p \in Inos, n \in NameSet : LookupCall(DB, t, p, n).err = "OK"
        /\ \E p \in Inos, n \in NameSet : LookupCall(DB, t, p, n).err = "ENOENT"
        /\ \E d \in Inos, o \in Cursors : IterateDirCall(DB, t, d, o).err = "OK"
        /\ \E d \in Inos, o \in Cursors : IterateDirCall(DB, t, d, o).err = "ENOTDIR"
        /\ \E i \in Inos : ReadCall(DB, t, i, 1, 0).out.n = 1
        /\ \E i \in Inos : ReadCall(DB, t, i, 1, 0).err = "EISDIR"
        /\ \E i \in Inos : CountLinksCall(DB, t, i).out.count = 2
        /\ \E i \in Inos : CountLinksCall(DB, t, i).err = "ENOENT"

(* C38: no directory entry targets the root inode, so no name that Unlink  *)
(* or Rmdir can be given resolves to the root: CreateFile and CreateDir    *)
(* bind only numbers from VTFS_ROOT_INO + 1 on, and Link refuses the root  *)
(* as a target.                                                            *)
RootNeverNamed ==
    /\ \A e \in directory_entries : e.ino # VTFS_ROOT_INO
    /\ \A t \in Tokens, p \in Inos, n \in NameSet :
        /\ DirLookup(DB, t, p, n) # VTFS_ROOT_INO
        /\ LinkCall(DB, t, VTFS_ROOT_INO, p, n, 0).err # "OK"
        /\ \A m \in Modes :
            LET f == CreateFileCall(DB, t, p, n, m, 0)
                d == CreateDirCall(DB, t, p, n, m, 0)
            IN /\ f.err = "OK" => f.out.ino > VTFS_ROOT_INO
               /\ d.err = "OK" => d.out.ino > VTFS_ROOT_INO

(* A call on the root, the only directory there is, was refused with       *)
(* EISDIR while the root owns entries and a name under it is free, for     *)
(* which Link to the root is refused.                                      *)
RootNeverNamedWitness ==
    /\ last.err = "EISDIR"
    /\ \A i \in inodes : i.type = NodeTypeDir => i.ino = VTFS_ROOT_INO
    /\ EntriesOf(DB, last.token, VTFS_ROOT_INO) # {}
    /\ \E n \in NameSet :
        /\ ~DirExists(DB, last.token, VTFS_ROOT_INO, n)
        /\ LinkCall(DB, last.token, VTFS_ROOT_INO, VTFS_ROOT_INO, n, 0).err = "EISDIR"

====
